---- MODULE Spec2Model ----
(***************************************************************************)
(* EDEA-server: the diagram store (src/src/server.rs), its snapshot file,  *)
(* the process start-up and shutdown protocol (src/src/main.rs) and the    *)
(* REST proxy with its JSON translator (src/src/proxy.rs).                 *)
(*                                                                         *)
(* Rust Strings are sequences of bytes (0..255), Option<T> is a sequence   *)
(* of length 0 (None) or 1 (Some), a struct is a record with the struct's  *)
(* field names, a HashMap is a function whose DOMAIN is the key set.       *)
(***************************************************************************)
EXTENDS Integers, Sequences, FiniteSets, TLC

None == <<>>
Some(x) == <<x>>
IsSome(o) == Len(o) = 1
Unwrap(o) == o[1]

Ok(v) == [ok |-> TRUE, v |-> v]
Err(v) == [ok |-> FALSE, v |-> v]

(***************************************************************************)
(* Fixed-width integers.  TLC's integers are 32-bit, so an i64/u64 of the  *)
(* JSON layer is kept as four 16-bit limbs, most significant first, in     *)
(* two's complement; an i32 is a TLA+ integer in -2^31 .. 2^31-1.          *)
(***************************************************************************)
Limb == 65536

\* the four bytes least significant first
u32_to_le_bytes(n) ==
  <<n % 256, (n \div 256) % 256, (n \div 65536) % 256, (n \div 16777216) % 256>>

u32_to_be_bytes(n) ==
  <<(n \div 16777216) % 256, (n \div 65536) % 256, (n \div 256) % 256, n % 256>>

u32_from_be_bytes(b) ==
  b[1] * 16777216 + b[2] * 65536 + b[3] * 256 + b[4]

\* `x as i32` for a 64-bit x: the low two limbs, read in two's complement.
as_i32(limbs) ==
  IF limbs[3] >= 32768 THEN (limbs[3] - Limb) * Limb + limbs[4]
  ELSE limbs[3] * Limb + limbs[4]

\* `x as u32` for a 64-bit x: the low two limbs.
as_u32(limbs) == limbs[3] * Limb + limbs[4]

\* an i32 widened to 64 bits (serde_json's From<i32>).
i64_from_i32(v) ==
  IF v < 0 THEN <<Limb - 1, Limb - 1, (v \div Limb) + Limb, v % Limb>>
  ELSE <<0, 0, v \div Limb, v % Limb>>

u64_from_u32(v) == <<0, 0, v \div Limb, v % Limb>>

(***************************************************************************)
(* The message types generated from proto/class.proto, and their defaults. *)
(***************************************************************************)
FileId(id) == [id |-> id]

DefaultFile ==
  [last_modified |-> 0, created_at |-> 0, file_id |-> None, name |-> <<>>,
   classes |-> <<>>]

DefaultClass ==
  [id |-> <<>>, name |-> <<>>, relations |-> None, attributes |-> <<>>,
   methods |-> <<>>]

DefaultVariable ==
  [name |-> <<>>, type |-> <<>>, visibility |-> None, is_static |-> None]

DefaultMethod ==
  [name |-> <<>>, return_type |-> <<>>, visibility |-> 0, is_abstract |-> None,
   is_static |-> None, parameters |-> <<>>]

DefaultRelationInfo ==
  [target_class_id |-> <<>>, relation |-> 0, multiplicity_p |-> None,
   multiplicity_c |-> None, role_name_p |-> None, role_name_c |-> None]

DefaultMultiplicity == [lower |-> 0, upper |-> None]

DefaultRelationInfoList == [relation_infos |-> <<>>]

DefaultFileId == [id |-> <<>>]

RECURSIVE Concat(_)
Concat(ss) == IF ss = <<>> THEN <<>> ELSE Head(ss) \o Concat(Tail(ss))

(***************************************************************************)
(* prost's Message::encode / Message::decode for these messages: the       *)
(* protocol-buffer wire format (varint keys, wire type 0 for integers,     *)
(* bools and enums, wire type 2 for strings and embedded messages; a       *)
(* proto3 scalar equal to its default is not written, an optional field is *)
(* written whenever it is present).  Field numbers follow the order of the *)
(* fields in the generated structs.                                        *)
(***************************************************************************)
RECURSIVE Varint(_)
Varint(n) ==
  IF n < 128 THEN <<n>> ELSE <<128 + (n % 128)>> \o Varint(n \div 128)

\* an int32 is written sign-extended to 64 bits: ten bytes when negative.
Int32Varint(v) ==
  IF v >= 0 THEN Varint(v)
  ELSE LET hi == (v \div Limb) + Limb
           lo == v % Limb
       IN <<128 + (lo % 128), 128 + ((lo \div 128) % 128),
            128 + ((lo \div 16384) + (hi % 32) * 4),
            128 + ((hi \div 32) % 128), 128 + ((hi \div 4096) + 112),
            255, 255, 255, 255, 1>>

Key(num, wt) == Varint(num * 8 + wt)

EncInt32(num, v) == IF v = 0 THEN <<>> ELSE Key(num, 0) \o Int32Varint(v)
EncUint32(num, v) == IF v = 0 THEN <<>> ELSE Key(num, 0) \o Varint(v)
EncOptUint32(num, o) ==
  IF IsSome(o) THEN Key(num, 0) \o Varint(Unwrap(o)) ELSE <<>>
EncOptInt32(num, o) ==
  IF IsSome(o) THEN Key(num, 0) \o Int32Varint(Unwrap(o)) ELSE <<>>
EncOptBool(num, o) ==
  IF IsSome(o) THEN Key(num, 0) \o <<IF Unwrap(o) THEN 1 ELSE 0>> ELSE <<>>
EncLen(num, bytes) == Key(num, 2) \o Varint(Len(bytes)) \o bytes
EncString(num, s) == IF s = <<>> THEN <<>> ELSE EncLen(num, s)
EncOptString(num, o) == IF IsSome(o) THEN EncLen(num, Unwrap(o)) ELSE <<>>

EncodeFileId(m) == EncString(1, m.id)

EncodeVariable(m) ==
  EncString(1, m.name) \o EncString(2, m.type) \o EncOptInt32(3, m.visibility)
    \o EncOptBool(4, m.is_static)

EncodeMethod(m) ==
  EncString(1, m.name) \o EncString(2, m.return_type) \o EncInt32(3, m.visibility)
    \o EncOptBool(4, m.is_abstract) \o EncOptBool(5, m.is_static)
    \o Concat([i \in 1..Len(m.parameters) |->
                 EncLen(6, EncodeVariable(m.parameters[i]))])

EncodeMultiplicity(m) == EncUint32(1, m.lower) \o EncOptUint32(2, m.upper)

EncodeRelationInfo(m) ==
  EncString(1, m.target_class_id) \o EncInt32(2, m.relation)
    \o (IF IsSome(m.multiplicity_p)
        THEN EncLen(3, EncodeMultiplicity(Unwrap(m.multiplicity_p))) ELSE <<>>)
    \o (IF IsSome(m.multiplicity_c)
        THEN EncLen(4, EncodeMultiplicity(Unwrap(m.multiplicity_c))) ELSE <<>>)
    \o EncOptString(5, m.role_name_p) \o EncOptString(6, m.role_name_c)

EncodeRelationInfoList(m) ==
  Concat([i \in 1..Len(m.relation_infos) |->
            EncLen(1, EncodeRelationInfo(m.relation_infos[i]))])

EncodeClass(m) ==
  EncString(1, m.id) \o EncString(2, m.name)
    \o (IF IsSome(m.relations)
        THEN EncLen(3, EncodeRelationInfoList(Unwrap(m.relations))) ELSE <<>>)
    \o Concat([i \in 1..Len(m.attributes) |->
                 EncLen(4, EncodeVariable(m.attributes[i]))])
    \o Concat([i \in 1..Len(m.methods) |-> EncLen(5, EncodeMethod(m.methods[i]))])

\* File::encode (server.rs:66, :92)
EncodeFile(m) ==
  EncInt32(1, m.last_modified) \o EncInt32(2, m.created_at)
    \o (IF IsSome(m.file_id) THEN EncLen(3, EncodeFileId(Unwrap(m.file_id)))
        ELSE <<>>)
    \o EncString(4, m.name)
    \o Concat([i \in 1..Len(m.classes) |-> EncLen(5, EncodeClass(m.classes[i]))])

(***************************************************************************)
(* Decoding.  A buffer is first cut into fields (key, then a varint or a   *)
(* length-delimited slice); a message is its default value with the fields *)
(* merged in, in order.  Any truncated varint, any length that runs past   *)
(* the end of the buffer, a field number of zero, a group wire type, a     *)
(* known field with the wrong wire type and a string that is not UTF-8 is  *)
(* a DecodeError.                                                          *)
(***************************************************************************)
Min(S) == CHOOSE x \in S : \A y \in S : x <= y
Take(s, n) == SubSeq(s, 1, n)
Drop(s, n) == SubSeq(s, n + 1, Len(s))

ReadVarint(bytes) ==
  LET top == IF Len(bytes) < 10 THEN Len(bytes) ELSE 10
      idx == {i \in 1..top : bytes[i] < 128}
  IN IF idx = {} THEN Err("invalid varint")
     ELSE LET n == Min(idx)
          IN IF n = 10 /\ bytes[10] > 1 THEN Err("invalid varint")
             ELSE Ok([groups |-> [i \in 1..n |-> bytes[i] % 128],
                      rest |-> Drop(bytes, n)])

Group(g, i) == IF i <= Len(g) THEN g[i] ELSE 0
Lo16(g) == Group(g, 1) + 128 * Group(g, 2) + 16384 * (Group(g, 3) % 4)
Hi16(g) == (Group(g, 3) \div 4) + 32 * Group(g, 4) + 4096 * (Group(g, 5) % 16)

\* the low 32 bits of a varint, as an i32 and as a u32
ToI32(g) ==
  IF Hi16(g) >= 32768 THEN (Hi16(g) - Limb) * Limb + Lo16(g)
  ELSE Hi16(g) * Limb + Lo16(g)
ToU32(g) == Hi16(g) * Limb + Lo16(g)

\* a varint as a length or a key: -1 stands for anything of 2^28 or more
ToSize(g) ==
  IF \E i \in 5..Len(g) : g[i] # 0 THEN -1
  ELSE Group(g, 1) + 128 * Group(g, 2) + 16384 * Group(g, 3)
         + 2097152 * Group(g, 4)

Field(num, wt, groups, bytes) ==
  [num |-> num, wt |-> wt, groups |-> groups, bytes |-> bytes]

PushField(f, r) == IF r.ok THEN Ok(<<f>> \o r.v) ELSE r

RECURSIVE ParseFields(_)
ParseFields(bytes) ==
  IF bytes = <<>> THEN Ok(<<>>)
  ELSE
    LET k == ReadVarint(bytes) IN
    IF ~k.ok THEN k
    ELSE
      LET key == ToSize(k.v.groups)
          wt == k.v.groups[1] % 8
          num == IF key < 0 THEN -1 ELSE key \div 8
          rest == k.v.rest
      IN
      IF num = 0 THEN Err("invalid tag value: 0")
      ELSE CASE wt = 0 ->
                  LET v == ReadVarint(rest) IN
                  IF ~v.ok THEN v
                  ELSE PushField(Field(num, 0, v.v.groups, <<>>),
                                 ParseFields(v.v.rest))
             [] wt = 2 ->
                  LET l == ReadVarint(rest) IN
                  IF ~l.ok THEN l
                  ELSE LET n == ToSize(l.v.groups) IN
                       IF n < 0 \/ n > Len(l.v.rest) THEN Err("buffer underflow")
                       ELSE PushField(Field(num, 2, <<>>, Take(l.v.rest, n)),
                                      ParseFields(Drop(l.v.rest, n)))
             [] wt = 1 ->
                  IF Len(rest) < 8 THEN Err("buffer underflow")
                  ELSE PushField(Field(num, 1, <<>>, <<>>), ParseFields(Drop(rest, 8)))
             [] wt = 5 ->
                  IF Len(rest) < 4 THEN Err("buffer underflow")
                  ELSE PushField(Field(num, 5, <<>>, <<>>), ParseFields(Drop(rest, 4)))
             [] OTHER -> Err("invalid wire type")

\* String::from_utf8 on the model's alphabet: ASCII bytes are UTF-8, a byte
\* of 128 or more is not (no multi-byte sequence is drawn).
from_utf8(bytes) ==
  IF \A i \in 1..Len(bytes) : bytes[i] < 128 THEN Ok(bytes)
  ELSE Err("invalid utf-8 sequence")

WrongWire == Err("invalid wire type")

\* merge the buffer into base, a message of the given kind; Ok(message) or the
\* DecodeError
RECURSIVE MergeMsg(_, _, _)

StringField(acc, name, f) ==
  IF f.wt # 2 THEN WrongWire
  ELSE LET s == from_utf8(f.bytes) IN
       IF s.ok THEN Ok([acc EXCEPT ![name] = s.v]) ELSE s

OptStringField(acc, name, f) ==
  IF f.wt # 2 THEN WrongWire
  ELSE LET s == from_utf8(f.bytes) IN
       IF s.ok THEN Ok([acc EXCEPT ![name] = Some(s.v)]) ELSE s

Int32Field(acc, name, f) ==
  IF f.wt # 0 THEN WrongWire ELSE Ok([acc EXCEPT ![name] = ToI32(f.groups)])

OptInt32Field(acc, name, f) ==
  IF f.wt # 0 THEN WrongWire ELSE Ok([acc EXCEPT ![name] = Some(ToI32(f.groups))])

Uint32Field(acc, name, f) ==
  IF f.wt # 0 THEN WrongWire ELSE Ok([acc EXCEPT ![name] = ToU32(f.groups)])

OptUint32Field(acc, name, f) ==
  IF f.wt # 0 THEN WrongWire ELSE Ok([acc EXCEPT ![name] = Some(ToU32(f.groups))])

OptBoolField(acc, name, f) ==
  IF f.wt # 0 THEN WrongWire
  ELSE Ok([acc EXCEPT ![name] = Some(\E i \in 1..Len(f.groups) : f.groups[i] # 0)])

\* an embedded message: merged into the one already there, or into a default
OptMessageField(kind, acc, name, default, f) ==
  IF f.wt # 2 THEN WrongWire
  ELSE LET m == MergeMsg(kind, IF IsSome(acc[name]) THEN Unwrap(acc[name])
                               ELSE default, f.bytes)
       IN IF m.ok THEN Ok([acc EXCEPT ![name] = Some(m.v)]) ELSE m

RepeatedField(kind, acc, name, default, f) ==
  IF f.wt # 2 THEN WrongWire
  ELSE LET m == MergeMsg(kind, default, f.bytes)
       IN IF m.ok THEN Ok([acc EXCEPT ![name] = Append(@, m.v)]) ELSE m

StepFileId(acc, f) ==
  CASE f.num = 1 -> StringField(acc, "id", f)
    [] OTHER -> Ok(acc)

StepVariable(acc, f) ==
  CASE f.num = 1 -> StringField(acc, "name", f)
    [] f.num = 2 -> StringField(acc, "type", f)
    [] f.num = 3 -> OptInt32Field(acc, "visibility", f)
    [] f.num = 4 -> OptBoolField(acc, "is_static", f)
    [] OTHER -> Ok(acc)

StepMethod(acc, f) ==
  CASE f.num = 1 -> StringField(acc, "name", f)
    [] f.num = 2 -> StringField(acc, "return_type", f)
    [] f.num = 3 -> Int32Field(acc, "visibility", f)
    [] f.num = 4 -> OptBoolField(acc, "is_abstract", f)
    [] f.num = 5 -> OptBoolField(acc, "is_static", f)
    [] f.num = 6 -> RepeatedField("Variable", acc, "parameters", DefaultVariable, f)
    [] OTHER -> Ok(acc)

StepMultiplicity(acc, f) ==
  CASE f.num = 1 -> Uint32Field(acc, "lower", f)
    [] f.num = 2 -> OptUint32Field(acc, "upper", f)
    [] OTHER -> Ok(acc)

StepRelationInfo(acc, f) ==
  CASE f.num = 1 -> StringField(acc, "target_class_id", f)
    [] f.num = 2 -> Int32Field(acc, "relation", f)
    [] f.num = 3 ->
         OptMessageField("Multiplicity", acc, "multiplicity_p", DefaultMultiplicity, f)
    [] f.num = 4 ->
         OptMessageField("Multiplicity", acc, "multiplicity_c", DefaultMultiplicity, f)
    [] f.num = 5 -> OptStringField(acc, "role_name_p", f)
    [] f.num = 6 -> OptStringField(acc, "role_name_c", f)
    [] OTHER -> Ok(acc)

StepRelationInfoList(acc, f) ==
  CASE f.num = 1 ->
         RepeatedField("RelationInfo", acc, "relation_infos", DefaultRelationInfo, f)
    [] OTHER -> Ok(acc)

StepClass(acc, f) ==
  CASE f.num = 1 -> StringField(acc, "id", f)
    [] f.num = 2 -> StringField(acc, "name", f)
    [] f.num = 3 ->
         OptMessageField("RelationInfoList", acc, "relations",
                         DefaultRelationInfoList, f)
    [] f.num = 4 -> RepeatedField("Variable", acc, "attributes", DefaultVariable, f)
    [] f.num = 5 -> RepeatedField("Method", acc, "methods", DefaultMethod, f)
    [] OTHER -> Ok(acc)

StepFile(acc, f) ==
  CASE f.num = 1 -> Int32Field(acc, "last_modified", f)
    [] f.num = 2 -> Int32Field(acc, "created_at", f)
    [] f.num = 3 -> OptMessageField("FileId", acc, "file_id", DefaultFileId, f)
    [] f.num = 4 -> StringField(acc, "name", f)
    [] f.num = 5 -> RepeatedField("Class", acc, "classes", DefaultClass, f)
    [] OTHER -> Ok(acc)

Step(kind, acc, f) ==
  CASE kind = "File" -> StepFile(acc, f)
    [] kind = "FileId" -> StepFileId(acc, f)
    [] kind = "Class" -> StepClass(acc, f)
    [] kind = "Variable" -> StepVariable(acc, f)
    [] kind = "Method" -> StepMethod(acc, f)
    [] kind = "RelationInfoList" -> StepRelationInfoList(acc, f)
    [] kind = "RelationInfo" -> StepRelationInfo(acc, f)
    [] kind = "Multiplicity" -> StepMultiplicity(acc, f)

RECURSIVE Fold(_, _, _)
Fold(kind, acc, fs) ==
  IF fs = <<>> THEN Ok(acc)
  ELSE LET r == Step(kind, acc, Head(fs)) IN
       IF r.ok THEN Fold(kind, r.v, Tail(fs)) ELSE r

MergeMsg(kind, base, bytes) ==
  LET fs == ParseFields(bytes) IN
  IF fs.ok THEN Fold(kind, base, fs.v) ELSE fs

\* File::decode (server.rs:149)
DecodeFile(bytes) == MergeMsg("File", DefaultFile, bytes)

(***************************************************************************)
(* The snapshot file (server.rs:49-72 and 117-151).                        *)
(*   u32 file_count, then per entry: u32 id length, id, u32 data length,   *)
(*   the File encoded.  All u32 are big-endian.                            *)
(***************************************************************************)
\* one entry of the snapshot buffer (server.rs:58-71)
EncodeEntry(file_id, file) ==
  LET file_buffer == EncodeFile(file) IN
  u32_to_be_bytes(Len(file_id)) \o file_id
    \o u32_to_be_bytes(Len(file_buffer)) \o file_buffer

\* the buffer save_to_disk writes for the cloned map, `order` being the order
\* in which files.iter() yields the keys (server.rs:50-72)
SnapshotBuffer(fs, order) ==
  u32_to_be_bytes(Cardinality(DOMAIN fs))
    \o Concat([i \in 1..Len(order) |-> EncodeEntry(order[i], fs[order[i]])])

\* the orders files.iter() may yield: every enumeration of the keys
IterOrders(fs) ==
  LET n == Cardinality(DOMAIN fs) IN
  {o \in [1..n -> DOMAIN fs] : \A i, j \in 1..n : i # j => o[i] # o[j]}

\* an insert that keeps the entry the map already has for the key
insert_keep(fs, k, v) == [x \in DOMAIN fs \cup {k} |-> IF x \in DOMAIN fs THEN fs[x] ELSE v]

\* HashMap::insert
insert(fs, k, v) == [x \in DOMAIN fs \cup {k} |-> IF x = k THEN v ELSE fs[x]]

\* HashMap::remove
remove(fs, k) == [x \in DOMAIN fs \ {k} |-> fs[x]]

EmptyMap == [x \in {} |-> DefaultFile]

\* cursor.read_exact of a u32 (server.rs:121-123, 130-132, 140-142): the value
\* and the rest of the buffer.  A value of 2^31 or more is kept as 2^31-1: both
\* are larger than any buffer of the model.
ReadU32(cur) ==
  IF Len(cur) < 4 THEN Err("failed to fill whole buffer")
  ELSE Ok([n |-> IF cur[1] >= 128 THEN 2147483647
                 ELSE u32_from_be_bytes(Take(cur, 4)),
           rest |-> Drop(cur, 4)])

\* a read that returns the bytes there are when fewer than n are left
ReadExact_short(cur, n) ==
  LET m == IF n < Len(cur) THEN n ELSE Len(cur) IN
  Ok([bytes |-> Take(cur, m), rest |-> Drop(cur, m)])

\* cursor.read_exact of n bytes (server.rs:135-136, 145-146)
ReadExact(cur, n) ==
  IF Len(cur) < n THEN Err("failed to fill whole buffer")
  ELSE Ok([bytes |-> Take(cur, n), rest |-> Drop(cur, n)])

Failed(fs, e) == [ok |-> FALSE, files |-> fs, err |-> e]

\* the loop of load_from_disk (server.rs:128-151): `count` entries are still to
\* be read from `cur`; an entry already inserted stays in the map when a later
\* one fails.
RECURSIVE LoadEntries(_, _, _)
LoadEntries(cur, count, fs) ==
  IF count = 0 THEN [ok |-> TRUE, files |-> fs, err |-> ""]
  ELSE
    LET idLen == ReadU32(cur) IN
    IF ~idLen.ok THEN Failed(fs, idLen.v)
    ELSE
      LET idBytes == ReadExact(idLen.v.rest, idLen.v.n) IN
      IF ~idBytes.ok THEN Failed(fs, idBytes.v)
      ELSE
        LET file_id == from_utf8(idBytes.v.bytes) IN
        IF ~file_id.ok THEN Failed(fs, file_id.v)
        ELSE
          LET dataLen == ReadU32(idBytes.v.rest) IN
          IF ~dataLen.ok THEN Failed(fs, dataLen.v)
          ELSE
            LET data == ReadExact(dataLen.v.rest, dataLen.v.n) IN
            IF ~data.ok THEN Failed(fs, data.v)
            ELSE
              LET file == DecodeFile(data.v.bytes) IN
              IF ~file.ok THEN Failed(fs, file.v)
              ELSE LoadEntries(data.v.rest, count - 1,
                               insert(fs, file_id.v, file.v))

\* load_from_disk once the file has been read (server.rs:118-154)
LoadSnapshot(content, fs) ==
  LET file_count == ReadU32(content) IN
  IF ~file_count.ok THEN Failed(fs, file_count.v)
  ELSE LoadEntries(file_count.v.rest, file_count.v.n, fs)

\* a load that takes every directory for one without a snapshot file
load_from_disk_nofile(d, fs, read_ok) == [ok |-> TRUE, files |-> fs, err |-> ""]

\* a load that takes a missing directory or a missing file for an error
load_from_disk_strict(d, fs, read_ok) ==
  IF ~d.dir \/ ~IsSome(d.snapshot) THEN Failed(fs, "No such file or directory")
  ELSE IF ~read_ok THEN Failed(fs, "io error")
  ELSE LoadSnapshot(Unwrap(d.snapshot), fs)

\* load_from_disk (server.rs:101-155) on a disk d = [dir, snapshot]; read_ok is
\* whether fs::read succeeds
load_from_disk(d, fs, read_ok) ==
  IF ~d.dir THEN [ok |-> TRUE, files |-> fs, err |-> ""]
  ELSE IF ~IsSome(d.snapshot) THEN [ok |-> TRUE, files |-> fs, err |-> ""]
  ELSE IF ~read_ok THEN Failed(fs, "io error")
  ELSE LoadSnapshot(Unwrap(d.snapshot), fs)

(***************************************************************************)
(* serde_json::Value.  An object is a function from its keys; a number is  *)
(* an i64 (four limbs), a u64 above i64::MAX, or a float.                  *)
(***************************************************************************)
JNull == [t |-> "null"]
JBool(b) == [t |-> "bool", b |-> b]
JStr(s) == [t |-> "str", s |-> s]
JInt(limbs) == [t |-> "i64", n |-> limbs]
JBigU64(limbs) == [t |-> "u64", n |-> limbs]
JFloat == [t |-> "f64"]
JArr(a) == [t |-> "arr", a |-> a]
JObj(o) == [t |-> "obj", o |-> o]

\* a small integer as a JSON number
JNum(v) == JInt(i64_from_i32(v))

get(json, key) ==
  IF json.t = "obj" THEN (IF key \in DOMAIN json.o THEN Some(json.o[key]) ELSE None)
  ELSE None
as_str(v) == IF v.t = "str" THEN Some(v.s) ELSE None
as_bool(v) == IF v.t = "bool" THEN Some(v.b) ELSE None
as_array(v) == IF v.t = "arr" THEN Some(v.a) ELSE None
as_i64(v) == IF v.t = "i64" THEN Some(v.n) ELSE None
as_u64(v) ==
  IF v.t = "u64" THEN Some(v.n)
  ELSE IF v.t = "i64" THEN (IF v.n[1] < 32768 THEN Some(v.n) ELSE None)
  ELSE None

and_then(o, F(_)) == IF IsSome(o) THEN F(Unwrap(o)) ELSE None
map(o, F(_)) == IF IsSome(o) THEN Some(F(Unwrap(o))) ELSE None
unwrap_or(o, d) == IF IsSome(o) THEN Unwrap(o) ELSE d

\* iter().filter_map(|x| F(x).ok()).collect()
filter_map_ok(F(_), a) ==
  LET r == [i \in 1..Len(a) |-> F(a[i])] IN
  Concat([i \in 1..Len(a) |-> IF r[i].ok THEN <<r[i].v>> ELSE <<>>])

get_str(json, key) == unwrap_or(and_then(get(json, key), as_str), <<>>)

\* the enums of proto/class.proto and their names in the JSON form
S_PUBLIC == <<80, 85, 66, 76, 73, 67>>
S_PRIVATE == <<80, 82, 73, 86, 65, 84, 69>>
S_PROTECTED == <<80, 82, 79, 84, 69, 67, 84, 69, 68>>
S_NON_MODIFIER == <<78, 79, 78, 95, 77, 79, 68, 73, 70, 73, 69, 82>>
S_NONE == <<78, 79, 78, 69>>
S_INHERITANCE == <<73, 78, 72, 69, 82, 73, 84, 65, 78, 67, 69>>
S_IMPLEMENTATION == <<73, 77, 80, 76, 69, 77, 69, 78, 84, 65, 84, 73, 79, 78>>
S_ASSOCIATION == <<65, 83, 83, 79, 67, 73, 65, 84, 73, 79, 78>>
S_AGGREGATION == <<65, 71, 71, 82, 69, 71, 65, 84, 73, 79, 78>>
S_COMPOSITION == <<67, 79, 77, 80, 79, 83, 73, 84, 73, 79, 78>>

Visibility_Public == 0
Visibility_Private == 1
Visibility_Protected == 2
Visibility_NonModifier == 3
Relation_None == 0
Relation_Inheritance == 1
Relation_Implementation == 2
Relation_Association == 3
Relation_Aggregation == 4
Relation_Composition == 5

\* the match of proxy.rs:279-284 and 310-315
visibility_of_str(v) ==
  CASE v = S_PUBLIC -> Some(Visibility_Public)
    [] v = S_PRIVATE -> Some(Visibility_Private)
    [] v = S_PROTECTED -> Some(Visibility_Protected)
    [] OTHER -> Some(Visibility_NonModifier)

\* the match of proxy.rs:352-359
relation_of_str(v) ==
  CASE v = S_INHERITANCE -> Some(Relation_Inheritance)
    [] v = S_IMPLEMENTATION -> Some(Relation_Implementation)
    [] v = S_ASSOCIATION -> Some(Relation_Association)
    [] v = S_AGGREGATION -> Some(Relation_Aggregation)
    [] v = S_COMPOSITION -> Some(Relation_Composition)
    [] OTHER -> Some(Relation_None)

json_to_proto_variable(json) ==
  Ok([name |-> get_str(json, "name"),
      type |-> get_str(json, "type"),
      visibility |-> and_then(and_then(get(json, "visibility"), as_str),
                              visibility_of_str),
      is_static |-> and_then(get(json, "is_static"), as_bool)])

json_to_proto_method(json) ==
  Ok([name |-> get_str(json, "name"),
      return_type |-> get_str(json, "return_type"),
      visibility |->
        unwrap_or(and_then(and_then(get(json, "visibility"), as_str),
                           visibility_of_str),
                  Visibility_NonModifier),
      is_abstract |-> and_then(get(json, "is_abstract"), as_bool),
      is_static |-> and_then(get(json, "is_static"), as_bool),
      parameters |->
        LET collect(params) == filter_map_ok(json_to_proto_variable, params)
        IN unwrap_or(map(and_then(get(json, "parameters"), as_array), collect),
                     <<>>)])

json_to_proto_multiplicity(json) ==
  Ok([lower |-> as_u32(unwrap_or(and_then(get(json, "lower"), as_u64),
                                 <<0, 0, 0, 0>>)),
      upper |-> map(and_then(get(json, "upper"), as_u64), as_u32)])

json_to_proto_relation(json) ==
  LET mult(v) == LET r == json_to_proto_multiplicity(v)
                 IN IF r.ok THEN Some(r.v) ELSE None
  IN
  Ok([target_class_id |-> get_str(json, "target_class_id"),
      relation |->
        unwrap_or(and_then(and_then(get(json, "relation"), as_str),
                           relation_of_str),
                  Relation_None),
      multiplicity_p |-> and_then(get(json, "multiplicity_p"), mult),
      multiplicity_c |-> and_then(get(json, "multiplicity_c"), mult),
      role_name_p |-> and_then(get(json, "role_name_p"), as_str),
      role_name_c |-> and_then(get(json, "role_name_c"), as_str)])

json_to_proto_class(json) ==
  LET attrs(a) == filter_map_ok(json_to_proto_variable, a)
      meths(a) == filter_map_ok(json_to_proto_method, a)
      rels(a) == [relation_infos |-> filter_map_ok(json_to_proto_relation, a)]
      relation_infos(v) == get(v, "relation_infos")
  IN
  Ok([id |-> get_str(json, "id"),
      name |-> get_str(json, "name"),
      relations |->
        map(and_then(and_then(get(json, "relations"), relation_infos), as_array),
            rels),
      attributes |->
        unwrap_or(map(and_then(get(json, "attributes"), as_array), attrs), <<>>),
      methods |->
        unwrap_or(map(and_then(get(json, "methods"), as_array), meths), <<>>)])

json_to_proto_file(json) ==
  LET id_of(v) == get(v, "id")
      collect(a) == filter_map_ok(json_to_proto_class, a)
      file_id == unwrap_or(and_then(and_then(get(json, "file_id"), id_of), as_str),
                           <<>>)
  IN
  Ok([last_modified |->
        as_i32(unwrap_or(and_then(get(json, "last_modified"), as_i64),
                         <<0, 0, 0, 0>>)),
      created_at |->
        as_i32(unwrap_or(and_then(get(json, "created_at"), as_i64),
                         <<0, 0, 0, 0>>)),
      file_id |-> Some(FileId(file_id)),
      name |-> get_str(json, "name"),
      classes |->
        unwrap_or(map(and_then(get(json, "classes"), as_array), collect), <<>>)])

(***************************************************************************)
(* Model to JSON (proxy.rs:402-531).  json!() turns an i32 or u32 into a   *)
(* number, a String into a string, and an Option into null or its value.   *)
(***************************************************************************)
JU32(v) == JInt(u64_from_u32(v))
JOptBool(o) == IF IsSome(o) THEN JBool(Unwrap(o)) ELSE JNull
JOptStr(o) == IF IsSome(o) THEN JStr(Unwrap(o)) ELSE JNull
JOptU32(o) == IF IsSome(o) THEN JU32(Unwrap(o)) ELSE JNull

\* a match that knows PUBLIC alone
str_of_visibility_public(v) ==
  IF v = Visibility_Public THEN S_PUBLIC ELSE S_NON_MODIFIER

\* the match of proxy.rs:454-459 and 471-476
str_of_visibility(v) ==
  CASE v = Visibility_Public -> S_PUBLIC
    [] v = Visibility_Private -> S_PRIVATE
    [] v = Visibility_Protected -> S_PROTECTED
    [] OTHER -> S_NON_MODIFIER

\* the match of proxy.rs:495-502
str_of_relation(v) ==
  CASE v = Relation_Inheritance -> S_INHERITANCE
    [] v = Relation_Implementation -> S_IMPLEMENTATION
    [] v = Relation_Association -> S_ASSOCIATION
    [] v = Relation_Aggregation -> S_AGGREGATION
    [] v = Relation_Composition -> S_COMPOSITION
    [] OTHER -> S_NONE

\* proxy.rs:526-531
proto_multiplicity_to_json(multiplicity) ==
  JObj([lower |-> JU32(multiplicity.lower), upper |-> JOptU32(multiplicity.upper)])

\* proxy.rs:451-468
proto_variable_to_json(variable) ==
  JObj([name |-> JStr(variable.name),
        type |-> JStr(variable.type),
        visibility |->
          JStr(IF IsSome(variable.visibility)
               THEN str_of_visibility(Unwrap(variable.visibility))
               ELSE S_NON_MODIFIER),
        is_static |-> JOptBool(variable.is_static)])

\* proxy.rs:470-492
proto_method_to_json(method) ==
  JObj([name |-> JStr(method.name),
        return_type |-> JStr(method.return_type),
        visibility |-> JStr(str_of_visibility(method.visibility)),
        is_abstract |-> JOptBool(method.is_abstract),
        is_static |-> JOptBool(method.is_static),
        parameters |->
          JArr([i \in 1..Len(method.parameters) |->
                  proto_variable_to_json(method.parameters[i])])])

\* proxy.rs:494-524
proto_relation_to_json(relation) ==
  JObj([target_class_id |-> JStr(relation.target_class_id),
        relation |-> JStr(str_of_relation(relation.relation)),
        multiplicity_p |->
          IF IsSome(relation.multiplicity_p)
          THEN proto_multiplicity_to_json(Unwrap(relation.multiplicity_p))
          ELSE JNull,
        multiplicity_c |->
          IF IsSome(relation.multiplicity_c)
          THEN proto_multiplicity_to_json(Unwrap(relation.multiplicity_c))
          ELSE JNull,
        role_name_p |-> JOptStr(relation.role_name_p),
        role_name_c |-> JOptStr(relation.role_name_c)])

\* proxy.rs:420-449
proto_class_to_json(class) ==
  JObj([id |-> JStr(class.id),
        name |-> JStr(class.name),
        attributes |->
          JArr([i \in 1..Len(class.attributes) |->
                  proto_variable_to_json(class.attributes[i])]),
        methods |->
          JArr([i \in 1..Len(class.methods) |->
                  proto_method_to_json(class.methods[i])]),
        relations |->
          IF IsSome(class.relations)
          THEN LET rel == Unwrap(class.relations) IN
               JObj([relation_infos |->
                       JArr([i \in 1..Len(rel.relation_infos) |->
                               proto_relation_to_json(rel.relation_infos[i])])])
          ELSE JNull])

\* proxy.rs:402-418
proto_file_to_json(file) ==
  JObj([last_modified |-> JNum(file.last_modified),
        created_at |-> JNum(file.created_at),
        file_id |->
          IF IsSome(file.file_id) THEN JObj([id |-> JStr(Unwrap(file.file_id).id)])
          ELSE JObj([id |-> JStr(<<>>)]),
        name |-> JStr(file.name),
        classes |->
          JArr([i \in 1..Len(file.classes) |->
                  proto_class_to_json(file.classes[i])])])

(***************************************************************************)
(* The service: the four handlers of server.rs:186-280 as functions of the *)
(* map, and the REST handlers' view of their results (proxy.rs:64-71,      *)
(* 128-135).                                                               *)
(***************************************************************************)
Response(status, value, message, file) ==
  [status |-> status, value |-> value, message |-> message, file |-> file]

ProtoResult(value, message) == Response("Ok", value, message, None)

\* a Save that files the document under its name
save_class_diagram_by_name(fs, file) ==
  IF IsSome(file.file_id)
  THEN [files |-> insert(fs, file.name, file),
        result |-> ProtoResult(TRUE, "Class diagram saved successfully")]
  ELSE [files |-> fs, result |-> ProtoResult(FALSE, "File ID is required")]

\* server.rs:186-215
save_class_diagram(fs, file) ==
  IF IsSome(file.file_id)
  THEN [files |-> insert(fs, Unwrap(file.file_id).id, file),
        result |-> ProtoResult(TRUE, "Class diagram saved successfully")]
  ELSE [files |-> fs, result |-> ProtoResult(FALSE, "File ID is required")]

\* server.rs:217-230
get_class_diagram(fs, file_id) ==
  IF file_id.id \in DOMAIN fs
  THEN Response("Ok", TRUE, "", Some(fs[file_id.id]))
  ELSE Response("NotFound", FALSE, "File not found", None)

\* a lookup that answers for the map as a whole, not for the id
is_existing_any(fs, file_id) ==
  LET exists == DOMAIN fs # {} IN
  ProtoResult(exists, IF exists THEN "File exists" ELSE "File does not exist")

\* server.rs:232-255
is_existing_class_diagram(fs, file_id) ==
  LET exists == file_id.id \in DOMAIN fs IN
  ProtoResult(exists, IF exists THEN "File exists" ELSE "File does not exist")

\* a delete that reports a removal whether or not the id was there
delete_class_diagram_always(fs, file_id) ==
  [files |-> remove(fs, file_id.id),
   result |-> ProtoResult(TRUE, "Class diagram deleted successfully")]

\* server.rs:257-280
delete_class_diagram(fs, file_id) ==
  LET removed == file_id.id \in DOMAIN fs IN
  [files |-> remove(fs, file_id.id),
   result |-> ProtoResult(removed,
                          IF removed THEN "Class diagram deleted successfully"
                          ELSE "File not found")]

\* proxy.rs:64-71: what save_diagram returns for the server's result
save_diagram(result) ==
  IF result.value THEN Ok("Diagram saved successfully") ELSE Err(result.message)

\* proxy.rs:74-101: what get_diagram returns: the File as JSON, or the error
\* of the call
get_diagram(result) ==
  IF result.status = "Ok" THEN Ok(proto_file_to_json(Unwrap(result.file)))
  ELSE Err("Failed to get diagram")

\* proxy.rs:128-135: what delete_diagram returns for the server's result
delete_diagram(result) ==
  IF result.value THEN Ok("Diagram deleted successfully") ELSE Err(result.message)

(***************************************************************************)
(* The process.                                                            *)
(***************************************************************************)
Workers == {"w1", "w2", "w3"}
Savers == {"periodic", "server"}
Tasks == {"main", "server", "periodic", "grpc", "proxy", "exporter"} \cup Workers

VARIABLES
  files,       \* DiagramServiceImpl.files: the map behind the Mutex
  lock,        \* the Mutex: "free" or the task holding the guard
  mutating,    \* the tasks inside HashMap::insert / HashMap::remove
  disk,        \* [dir, snapshot, exported]: data/ exists, contents of
               \* data/snapshot.bin, the directories under data/exported/
  pc,          \* where each task is
  req,         \* per request handler: the request and, once made, its response
  local,       \* per save_to_disk call: the cloned map and the encoded buffer
  ready,       \* the server_ready oneshot: "empty", "ok" or "err"
  shutdown_tx, \* the shutdown oneshot: "open", "sent" or "dropped" (unsent)
  exit,        \* main: "running", or what it returned: "ok" or "err"
  shadow,      \* history: per id, the File of the last Save since the last Delete
  replaced,    \* history: the entry the latest Save replaced, if it replaced one
  image,       \* history: the map whose encoding snapshot.bin holds in full
  booted       \* history: what this process's load_from_disk found and did

vars ==
  <<files, lock, mutating, disk, pc, req, local, ready, shutdown_tx, exit,
    shadow, replaced, image, booted>>

NoReq ==
  [op |-> "none", via |-> "grpc", file_id |-> DefaultFileId, file |-> None,
   body |-> None, result |-> None, rest |-> None, torn |-> FALSE]

Request(op, via, file_id, file) ==
  [op |-> op, via |-> via, file_id |-> file_id, file |-> file, body |-> None,
   result |-> None, rest |-> None, torn |-> FALSE]

NoLocal == [files |-> EmptyMap, buffer |-> <<>>, torn |-> FALSE, last |-> "none"]

\* save_to_disk has returned r ("ok" or "err") to its caller (server.rs:173-177,
\* main.rs:34-38)
Returned(r) == [NoLocal EXCEPT !.last = r]

NotBooted == [saw |-> "pending", ok |-> FALSE, err |-> ""]

\* where each task is when the process starts: main.rs:21 has spawned the
\* server task and main waits on server_ready_rx (main.rs:50)
StartPc ==
  [t \in Tasks |->
     CASE t = "main" -> "wait_ready"
       [] t = "server" -> "start"
       [] t \in Workers -> "idle"
       [] OTHER -> "unspawned"]

\* the memory of a process that has just started
Started ==
  /\ files = EmptyMap
  /\ lock = "free"
  /\ mutating = {}
  /\ pc = StartPc
  /\ req = [w \in Workers |-> NoReq]
  /\ local = [t \in Savers |-> NoLocal]
  /\ ready = "empty"
  /\ shutdown_tx = "open"
  /\ exit = "running"
  /\ shadow = EmptyMap
  /\ replaced = None
  /\ booted = NotBooted

\* a data directory without exports
Disk(dir, snapshot) == [dir |-> dir, snapshot |-> snapshot, exported |-> <<>>]

NoDisk == Disk(FALSE, None)

\* the first start, on a machine with no data directory
FirstStart == Started /\ disk = NoDisk /\ image = None

\* the process once started on an empty directory and serving
Serving ==
  /\ files = EmptyMap
  /\ lock = "free"
  /\ mutating = {}
  /\ disk = NoDisk
  /\ pc = [t \in Tasks |->
             CASE t = "main" -> "select"
               [] t = "server" -> "await_shutdown"
               [] t = "periodic" -> "tick"
               [] t \in Workers \cup {"exporter"} -> "idle"
               [] OTHER -> "serving"]
  /\ req = [w \in Workers |-> NoReq]
  /\ local = [t \in Savers |-> NoLocal]
  /\ ready = "ok"
  /\ shutdown_tx = "open"
  /\ exit = "running"
  /\ shadow = EmptyMap
  /\ replaced = None
  /\ image = None
  /\ booted = [saw |-> "nodir", ok |-> TRUE, err |-> ""]

\* a lock that every caller gets at once
lock_acquire_any(t) == TRUE

\* Mutex::lock (server.rs:41, 125, 194-197, 220-223, 238-241, 263-266): the
\* caller gets the guard when no task holds it
lock_acquire(t) == lock = "free"

\* another task is inside a HashMap mutation while t reads or writes the map
Torn(t) == mutating \ {t} # {}

\* the runtime is up: the tasks are polled until main has returned and the
\* runtime of #[tokio::main] has been shut down (main.rs:6)
Running == pc["main"] # "gone"

(***************************************************************************)
(* A request handler (server.rs:186-280).  A handler has no await between  *)
(* taking the guard and dropping it: it takes the guard, works on the map, *)
(* builds its response and drops the guard.  HashMap::insert and           *)
(* HashMap::remove are not atomic: a task that touches the map while       *)
(* another is inside one of them sees a torn map.                          *)
(***************************************************************************)
Respond(w, r, result, torn) ==
  /\ req' = [req EXCEPT ![w] =
               [r EXCEPT !.result = Some(result),
                         !.torn = torn,
                         !.rest = IF r.via # "rest" THEN None
                                  ELSE IF r.op = "save" THEN Some(save_diagram(result))
                                  ELSE IF r.op = "get" THEN Some(get_diagram(result))
                                  ELSE Some(delete_diagram(result))]]
  /\ pc' = [pc EXCEPT ![w] = "responded"]

\* a request arrives: save_class_diagram without a file_id answers at once
\* (server.rs:208-214), every other request takes the guard
Begin(w, r) ==
  /\ Running
  /\ pc["grpc"] = "serving"
  /\ r.via = "rest" => pc["proxy"] = "serving"
  /\ pc[w] = "idle"
  /\ IF r.op = "save" /\ ~IsSome(Unwrap(r.file).file_id)
     THEN /\ Respond(w, r, save_class_diagram(files, Unwrap(r.file)).result, FALSE)
          /\ UNCHANGED lock
     ELSE /\ lock_acquire(w)
          /\ lock' = w
          /\ req' = [req EXCEPT ![w] = r]
          /\ pc' = [pc EXCEPT ![w] = "locked"]
  /\ UNCHANGED <<files, mutating, disk, local, ready, shutdown_tx, exit, shadow,
                 replaced, image, booted>>

\* files.insert(...) begins (server.rs:200)
SaveInsertBegin(w) ==
  /\ Running
  /\ pc[w] = "locked"
  /\ req[w].op = "save"
  /\ mutating' = mutating \cup {w}
  /\ req' = [req EXCEPT ![w].torn = Torn(w)]
  /\ pc' = [pc EXCEPT ![w] = "inserting"]
  /\ UNCHANGED <<files, lock, disk, local, ready, shutdown_tx, exit, shadow,
                 replaced, image, booted>>

\* a Save that also writes the snapshot file as it returns
SaveInsertEnd_persist(w) ==
  /\ Running
  /\ pc[w] = "inserting"
  /\ LET file == Unwrap(req[w].file)
         id == Unwrap(file.file_id).id
         out == save_class_diagram(files, file)
     IN /\ files' = out.files
        /\ Respond(w, req[w], out.result, req[w].torn \/ Torn(w))
        /\ replaced' = IF id \in DOMAIN shadow
                       THEN Some([id |-> id, old |-> shadow[id]]) ELSE None
        /\ shadow' = [x \in DOMAIN shadow \cup {id} |->
                        IF x = id THEN file ELSE shadow[x]]
        /\ \E order \in IterOrders(out.files) :
             disk' = Disk(TRUE, Some(SnapshotBuffer(out.files, order)))
        /\ image' = Some(out.files)
  /\ mutating' = mutating \ {w}
  /\ lock' = "free"
  /\ UNCHANGED <<local, ready, shutdown_tx, exit, booted>>

\* files.insert(...) returns, the response is built, the guard is dropped
\* (server.rs:200-207)
SaveInsertEnd(w) ==
  /\ Running
  /\ pc[w] = "inserting"
  /\ LET file == Unwrap(req[w].file)
         id == Unwrap(file.file_id).id
         out == save_class_diagram(files, file)
     IN /\ files' = out.files
        /\ Respond(w, req[w], out.result, req[w].torn \/ Torn(w))
        /\ replaced' = IF id \in DOMAIN shadow
                       THEN Some([id |-> id, old |-> shadow[id]]) ELSE None
        /\ shadow' = [x \in DOMAIN shadow \cup {id} |->
                        IF x = id THEN file ELSE shadow[x]]
  /\ mutating' = mutating \ {w}
  /\ lock' = "free"
  /\ UNCHANGED <<disk, local, ready, shutdown_tx, exit, image, booted>>

\* files.remove(...) begins (server.rs:268)
DeleteRemoveBegin(w) ==
  /\ Running
  /\ pc[w] = "locked"
  /\ req[w].op = "delete"
  /\ mutating' = mutating \cup {w}
  /\ req' = [req EXCEPT ![w].torn = Torn(w)]
  /\ pc' = [pc EXCEPT ![w] = "removing"]
  /\ UNCHANGED <<files, lock, disk, local, ready, shutdown_tx, exit, shadow,
                 replaced, image, booted>>

\* files.remove(...) returns, the response is built, the guard is dropped
\* (server.rs:268-279)
DeleteRemoveEnd(w) ==
  /\ Running
  /\ pc[w] = "removing"
  /\ LET out == delete_class_diagram(files, req[w].file_id)
     IN /\ files' = out.files
        /\ Respond(w, req[w], out.result, req[w].torn \/ Torn(w))
  /\ shadow' = [x \in DOMAIN shadow \ {req[w].file_id.id} |-> shadow[x]]
  /\ replaced' = None
  /\ mutating' = mutating \ {w}
  /\ lock' = "free"
  /\ UNCHANGED <<disk, local, ready, shutdown_tx, exit, image, booted>>

\* get_class_diagram and is_existing_class_diagram under the guard
\* (server.rs:225-229, 243-254)
Lookup(w) ==
  /\ Running
  /\ pc[w] = "locked"
  /\ req[w].op \in {"get", "exists"}
  /\ Respond(w, req[w],
             IF req[w].op = "get" THEN get_class_diagram(files, req[w].file_id)
             ELSE is_existing_class_diagram(files, req[w].file_id),
             Torn(w))
  /\ lock' = "free"
  /\ UNCHANGED <<files, mutating, disk, local, ready, shutdown_tx, exit, shadow,
                 replaced, image, booted>>

\* the response leaves (or the caller has gone away and it is dropped)
Deliver(w) ==
  /\ Running
  /\ pc[w] = "responded"
  /\ req' = [req EXCEPT ![w] = NoReq]
  /\ pc' = [pc EXCEPT ![w] = "idle"]
  /\ UNCHANGED <<files, lock, mutating, disk, local, ready, shutdown_tx, exit,
                 shadow, replaced, image, booted>>

(***************************************************************************)
(* save_to_disk (server.rs:39-78), called by the periodic task and by the  *)
(* server task at shutdown.  tokio::fs::write creates (truncates) the file *)
(* and then writes the buffer, in one blocking call that runs to its end   *)
(* even when main has returned.                                            *)
(***************************************************************************)
\* write_all from offset 0 into a file that was empty when this call opened it
\* and may since have been written by another call: bytes past the end of the
\* buffer stay
write_at_start(content, buffer) == buffer \o Drop(content, Len(buffer))

\* a save_to_disk call whose return ends its caller
AfterSave_done(t) == "done"

\* where a save_to_disk call returns to: the timer loop (server.rs:165-166), or
\* the end of the server task (main.rs:34-38)
AfterSave(t) == IF t = "periodic" THEN "tick" ELSE "done"

\* a clone of the map taken without the guard
SaveClone_unguarded(t) ==
  /\ Running
  /\ pc[t] = "save_start"
  /\ local' = [local EXCEPT ![t] = [files |-> files, buffer |-> <<>>,
                                    torn |-> Torn(t), last |-> "none"]]
  /\ pc' = [pc EXCEPT ![t] = "cloned"]
  /\ UNCHANGED <<files, lock, mutating, disk, req, ready, shutdown_tx, exit,
                 shadow, replaced, image, booted>>

\* the guard is taken, the map cloned, the guard dropped (server.rs:40-43)
SaveClone(t) ==
  /\ Running
  /\ pc[t] = "save_start"
  /\ lock_acquire(t)
  /\ local' = [local EXCEPT ![t] = [files |-> files, buffer |-> <<>>,
                                    torn |-> Torn(t), last |-> "none"]]
  /\ pc' = [pc EXCEPT ![t] = "cloned"]
  /\ UNCHANGED <<files, lock, mutating, disk, req, ready, shutdown_tx, exit,
                 shadow, replaced, image, booted>>

\* create_dir_all, then the map is encoded (server.rs:46-72); an I/O error
\* ends the call (logged by the caller)
SaveEncode(t) ==
  /\ Running
  /\ pc[t] = "cloned"
  /\ \/ /\ disk' = [disk EXCEPT !.dir = TRUE]
        /\ \E order \in IterOrders(local[t].files) :
             local' = [local EXCEPT ![t].buffer =
                         SnapshotBuffer(local[t].files, order)]
        /\ pc' = [pc EXCEPT ![t] = "encoded"]
     \/ /\ pc' = [pc EXCEPT ![t] = AfterSave(t)]
        /\ local' = [local EXCEPT ![t] = Returned("err")]
        /\ UNCHANGED disk
  /\ UNCHANGED <<files, lock, mutating, req, ready, shutdown_tx, exit, shadow,
                 replaced, image, booted>>

\* tokio::fs::write opens the file: it exists and is empty (server.rs:74)
SaveOpen(t) ==
  /\ Running
  /\ pc[t] = "encoded"
  /\ \/ /\ disk.dir
        /\ disk' = [disk EXCEPT !.snapshot = Some(<<>>)]
        /\ image' = None
        /\ pc' = [pc EXCEPT ![t] = "opened"]
        /\ UNCHANGED local
     \/ /\ pc' = [pc EXCEPT ![t] = AfterSave(t)]
        /\ local' = [local EXCEPT ![t] = Returned("err")]
        /\ UNCHANGED <<disk, image>>
  /\ UNCHANGED <<files, lock, mutating, req, ready, shutdown_tx, exit, shadow,
                 replaced, booted>>

\* tokio::fs::write writes the buffer and save_to_disk returns (server.rs:74-77);
\* when the write fails the file stays as it was opened
SaveWrite(t) ==
  /\ pc[t] = "opened"
  /\ \/ LET content == write_at_start(Unwrap(disk.snapshot), local[t].buffer)
        IN /\ disk' = [disk EXCEPT !.snapshot = Some(content)]
           /\ image' = IF content = local[t].buffer THEN Some(local[t].files)
                       ELSE None
           /\ local' = [local EXCEPT ![t] = Returned("ok")]
     \/ /\ local' = [local EXCEPT ![t] = Returned("err")]
        /\ UNCHANGED <<disk, image>>
  /\ pc' = [pc EXCEPT ![t] = AfterSave(t)]
  /\ UNCHANGED <<files, lock, mutating, req, ready, shutdown_tx, exit, shadow,
                 replaced, booted>>

(***************************************************************************)
(* export_files (server.rs:80-98), a public method of the service that no  *)
(* code of the program calls: the exporter is a task that holds the        *)
(* service and calls it.  Each call writes a directory of its own          *)
(* (exported/<date>), one file per entry.                                  *)
(***************************************************************************)
MaxExports == 1

\* the entries this call has still to write
ExportRemaining ==
  DOMAIN files \ DOMAIN disk.exported[Len(disk.exported)]

\* the call begins: the guard is taken and kept (server.rs:82)
ExportLock ==
  /\ Running
  /\ pc["exporter"] = "idle"
  /\ Len(disk.exported) < MaxExports
  /\ lock_acquire("exporter")
  /\ lock' = "exporter"
  /\ pc' = [pc EXCEPT !["exporter"] = "export_locked"]
  /\ UNCHANGED <<files, mutating, disk, req, local, ready, shutdown_tx, exit,
                 shadow, replaced, image, booted>>

\* create_dir_all of the export directory, under the guard (server.rs:86); an
\* error ends the call and drops the guard
ExportMkdir ==
  /\ Running
  /\ pc["exporter"] = "export_locked"
  /\ \/ /\ disk' = [disk EXCEPT !.dir = TRUE,
                                 !.exported = Append(@, [x \in {} |-> <<>>])]
        /\ pc' = [pc EXCEPT !["exporter"] = "export_writing"]
        /\ UNCHANGED lock
     \/ /\ pc' = [pc EXCEPT !["exporter"] = "idle"]
        /\ lock' = "free"
        /\ UNCHANGED disk
  /\ UNCHANGED <<files, mutating, req, local, ready, shutdown_tx, exit, shadow,
                 replaced, image, booted>>

\* the next entry of files.iter() is encoded and written, under the guard
\* (server.rs:87-95); an error ends the call and drops the guard
ExportWrite ==
  /\ Running
  /\ pc["exporter"] = "export_writing"
  /\ \E id \in ExportRemaining :
       \/ /\ disk' = [disk EXCEPT !.exported[Len(disk.exported)] =
                         [x \in DOMAIN @ \cup {id} |->
                            IF x = id THEN EncodeFile(files[id]) ELSE @[x]]]
          /\ UNCHANGED <<pc, lock>>
       \/ /\ pc' = [pc EXCEPT !["exporter"] = "idle"]
          /\ lock' = "free"
          /\ UNCHANGED disk
  /\ UNCHANGED <<files, mutating, req, local, ready, shutdown_tx, exit, shadow,
                 replaced, image, booted>>

\* every entry is written: Ok(()) and the guard is dropped (server.rs:97-98)
ExportEnd ==
  /\ Running
  /\ pc["exporter"] = "export_writing"
  /\ ExportRemaining = {}
  /\ pc' = [pc EXCEPT !["exporter"] = "idle"]
  /\ lock' = "free"
  /\ UNCHANGED <<files, mutating, disk, req, local, ready, shutdown_tx, exit,
                 shadow, replaced, image, booted>>

\* interval.tick() completes (server.rs:166)
PeriodicTick ==
  /\ Running
  /\ pc["periodic"] = "tick"
  /\ pc' = [pc EXCEPT !["periodic"] = "save_start"]
  /\ UNCHANGED <<files, lock, mutating, disk, req, local, ready, shutdown_tx,
                 exit, shadow, replaced, image, booted>>

(***************************************************************************)
(* Start-up and shutdown (main.rs:19-113, server.rs:283-324).              *)
(***************************************************************************)
\* what load_from_disk found on the disk
Saw(d) ==
  IF ~d.dir THEN "nodir"
  ELSE IF ~IsSome(d.snapshot) THEN "nofile"
  ELSE IF Unwrap(d.snapshot) = <<>> THEN "empty"
  ELSE "data"

\* a start that goes on whatever load_from_disk returned
start_server_anyway(load) ==
  /\ pc' = [pc EXCEPT !["server"] = "sleep", !["periodic"] = "tick",
                      !["grpc"] = "starting"]
  /\ UNCHANGED ready

\* start_server up to its sleep (server.rs:284-317): the snapshot is loaded;
\* on success the periodic task and the gRPC server task are spawned, on
\* failure start_server returns the error and the server task reports it
\* (main.rs:40-44)
start_server(load) ==
  IF load.ok
  THEN /\ pc' = [pc EXCEPT !["server"] = "sleep", !["periodic"] = "tick",
                           !["grpc"] = "starting"]
       /\ UNCHANGED ready
  ELSE /\ pc' = [pc EXCEPT !["server"] = "done"]
       /\ ready' = "err"

StartServer ==
  /\ Running
  /\ pc["server"] = "start"
  /\ lock_acquire("server")
  /\ \E read_ok \in BOOLEAN :
       LET load == load_from_disk(disk, files, read_ok) IN
       /\ files' = load.files
       /\ booted' = [saw |-> Saw(disk), ok |-> load.ok, err |-> load.err]
       /\ start_server(load)
  /\ shadow' = files'
  /\ UNCHANGED <<lock, mutating, disk, req, local, shutdown_tx, exit, replaced,
                 image>>

\* Server::builder()...serve(addr) binds and serves, or fails and logs
\* (server.rs:305-317)
GrpcServe ==
  /\ Running
  /\ pc["grpc"] = "starting"
  /\ \/ pc' = [pc EXCEPT !["grpc"] = "serving"]
     \/ pc' = [pc EXCEPT !["grpc"] = "failed"]
  /\ UNCHANGED <<files, lock, mutating, disk, req, local, ready, shutdown_tx,
                 exit, shadow, replaced, image, booted>>

\* the sleep ends, start_server returns Ok and the server task reports it and
\* waits for the shutdown signal (server.rs:320-323, main.rs:24-30)
ServerReady ==
  /\ Running
  /\ pc["server"] = "sleep"
  /\ ready' = "ok"
  /\ pc' = [pc EXCEPT !["server"] = "await_shutdown"]
  /\ UNCHANGED <<files, lock, mutating, disk, req, local, shutdown_tx, exit,
                 shadow, replaced, image, booted>>

\* main receives the start-up notification (main.rs:50-71): on Ok it spawns the
\* REST proxy and goes on to the select, on Err it returns the error
MainReady ==
  /\ Running
  /\ pc["main"] = "wait_ready"
  /\ \/ /\ ready = "ok"
        /\ pc' = [pc EXCEPT !["main"] = "select", !["proxy"] = "starting"]
        /\ UNCHANGED <<exit, shutdown_tx>>
     \/ /\ ready = "err"
        /\ pc' = [pc EXCEPT !["main"] = "exited"]
        /\ exit' = "err"
        /\ shutdown_tx' = "dropped"
  /\ UNCHANGED <<files, lock, mutating, disk, req, local, ready, shadow,
                 replaced, image, booted>>

\* start_proxy binds and serves, or fails and the proxy task ends
\* (proxy.rs:18-38, main.rs:66-71)
ProxyServe ==
  /\ Running
  /\ pc["proxy"] = "starting"
  /\ \/ pc' = [pc EXCEPT !["proxy"] = "serving"]
     \/ pc' = [pc EXCEPT !["proxy"] = "stopped"]
  /\ UNCHANGED <<files, lock, mutating, disk, req, local, ready, shutdown_tx,
                 exit, shadow, replaced, image, booted>>

\* the select's proxy_handle branch (main.rs:86-88): main returns Ok, and
\* shutdown_tx, never sent, is dropped with main's locals
MainProxyStopped ==
  /\ Running
  /\ pc["main"] = "select"
  /\ pc["proxy"] = "stopped"
  /\ pc' = [pc EXCEPT !["main"] = "exited"]
  /\ exit' = "ok"
  /\ shutdown_tx' = "dropped"
  /\ UNCHANGED <<files, lock, mutating, disk, req, local, ready, shadow,
                 replaced, image, booted>>

\* Ctrl+C: the select's shutdown branch sends the shutdown signal and waits for
\* the server task under the 60 s timeout (main.rs:89-100)
CtrlC ==
  /\ Running
  /\ pc["main"] = "select"
  /\ shutdown_tx' = "sent"
  /\ pc' = [pc EXCEPT !["main"] = "shutdown_wait"]
  /\ UNCHANGED <<files, lock, mutating, disk, req, local, ready, exit, shadow,
                 replaced, image, booted>>

\* `let _ = shutdown_rx.await` completes, with the signal or with the error
\* of a sender dropped unsent, and the server task calls save_to_disk
\* (main.rs:30-34)
ServerShutdown ==
  /\ Running
  /\ pc["server"] = "await_shutdown"
  /\ shutdown_tx # "open"
  /\ pc' = [pc EXCEPT !["server"] = "save_start"]
  /\ UNCHANGED <<files, lock, mutating, disk, req, local, ready, shutdown_tx,
                 exit, shadow, replaced, image, booted>>

\* the wait ends, by the server task's end or by the timeout, and main returns
\* Ok (main.rs:102-113)
MainExit ==
  /\ Running
  /\ pc["main"] = "shutdown_wait"
  /\ \/ pc["server"] = "done"
     \/ TRUE
  /\ pc' = [pc EXCEPT !["main"] = "exited"]
  /\ exit' = "ok"
  /\ UNCHANGED <<files, lock, mutating, disk, req, local, ready, shutdown_tx,
                 shadow, replaced, image, booted>>

\* main has returned and the runtime is shut down: no task is polled again.
\* Dropping the runtime waits for the blocking-pool operation that is under
\* way, the write of tokio::fs::write (server.rs:74), to return.
RuntimeDrop ==
  /\ pc["main"] = "exited"
  /\ \A t \in Savers : pc[t] # "opened"
  /\ pc' = [pc EXCEPT !["main"] = "gone"]
  /\ UNCHANGED <<files, lock, mutating, disk, req, local, ready, shutdown_tx,
                 exit, shadow, replaced, image, booted>>

\* the process is gone (it returned or was killed) and is started again: the
\* memory is lost, the disk is what it was
Restart ==
  /\ UNCHANGED <<disk, image>>
  /\ files' = EmptyMap
  /\ lock' = "free"
  /\ mutating' = {}
  /\ pc' = StartPc
  /\ req' = [w \in Workers |-> NoReq]
  /\ local' = [t \in Savers |-> NoLocal]
  /\ ready' = "empty"
  /\ shutdown_tx' = "open"
  /\ exit' = "running"
  /\ shadow' = EmptyMap
  /\ replaced' = None
  /\ booted' = NotBooted

(***************************************************************************)
(* The documents and requests the specifications draw from.                *)
(***************************************************************************)
IdA == <<97>>
IdB == <<98>>
IdC == <<99>>
Name1 == <<110>>
Name2 == <<109>>

Ids == {<<>>, IdA, IdB}

GetRequest(id) == Request("get", "grpc", FileId(id), None)
ExistsRequest(id) == Request("exists", "grpc", FileId(id), None)
DeleteRequest(via, id) == Request("delete", via, FileId(id), None)
SaveRequest(file) == Request("save", "grpc", DefaultFileId, Some(file))
\* POST /api_p1: the body goes through json_to_proto_file (proxy.rs:53)
RestSaveRequest(json) ==
  [Request("save", "rest", DefaultFileId, Some(json_to_proto_file(json).v))
     EXCEPT !.body = Some(json)]
\* GET /api_p1/:file_id (proxy.rs:74-86)
RestGetRequest(id) == Request("get", "rest", FileId(id), None)

\* a document with a class, an attribute and a negative timestamp
FileA ==
  [last_modified |-> -1, created_at |-> 300, file_id |-> Some(FileId(IdA)),
   name |-> Name1,
   classes |-> <<[DefaultClass EXCEPT
                    !.id = <<99, 49>>,
                    !.attributes =
                      <<[name |-> <<120>>, type |-> <<105>>,
                         visibility |-> Some(Visibility_Private),
                         is_static |-> None]>>]>>]
FileA2 == [DefaultFile EXCEPT !.file_id = Some(FileId(IdA)), !.name = Name2]
FileB == [DefaultFile EXCEPT !.file_id = Some(FileId(IdB))]
FileC == [DefaultFile EXCEPT !.file_id = Some(FileId(IdC)), !.name = Name1]

MapA == [x \in {IdA} |-> FileA]

\* what an earlier run of the process can have left on the disk: nothing, the
\* directory alone, the file just opened, a snapshot written in full, a snapshot
\* written in part
BootDisks ==
  {[disk |-> NoDisk, image |-> None],
   [disk |-> Disk(TRUE, None), image |-> None],
   [disk |-> Disk(TRUE, Some(<<>>)), image |-> None],
   [disk |-> Disk(TRUE, Some(SnapshotBuffer(EmptyMap, <<>>))),
    image |-> Some(EmptyMap)],
   [disk |-> Disk(TRUE, Some(SnapshotBuffer(MapA, <<IdA>>))),
    image |-> Some(MapA)],
   [disk |-> Disk(TRUE, Some(Take(SnapshotBuffer(MapA, <<IdA>>),
                                  Len(SnapshotBuffer(MapA, <<IdA>>)) - 1))),
    image |-> None]}

\* a start of the process on a disk an earlier run has left
Init == Started /\ \E b \in BootDisks : disk = b.disk /\ image = b.image

\* the requests of Spec
Requests == {SaveRequest(FileA2), DeleteRequest("rest", IdA), GetRequest(IdA)}

\* the requests of SpecCrash
CrashRequests ==
  {SaveRequest(FileA), SaveRequest(FileA2), SaveRequest(FileB),
   DeleteRequest("grpc", IdA)}

\* the Files and JSON bodies of SpecApi: every id, absent and empty included
ApiFiles ==
  {[DefaultFile EXCEPT !.file_id = f, !.name = n] :
     f \in {None} \cup {Some(FileId(i)) : i \in Ids}, n \in {Name1, Name2}}
ApiJsons ==
  {JObj([name |-> JStr(Name1)]),
   JObj([file_id |-> JNull, name |-> JStr(Name2)]),
   JObj([file_id |-> JObj([id |-> JNum(7)]), name |-> JStr(Name2)]),
   JObj([file_id |-> JObj([id |-> JStr(<<>>)]), name |-> JStr(Name1)]),
   JObj([file_id |-> JObj([id |-> JStr(IdA)]), name |-> JStr(Name1)])}
ApiRequests ==
  {SaveRequest(f) : f \in ApiFiles} \cup {RestSaveRequest(j) : j \in ApiJsons}
    \cup {GetRequest(i) : i \in Ids} \cup {ExistsRequest(i) : i \in Ids}
    \cup {DeleteRequest(via, i) : via \in {"grpc", "rest"}, i \in Ids}

\* the requests of SpecConc
ConcRequests ==
  {SaveRequest(FileA), SaveRequest(FileB), GetRequest(IdA), ExistsRequest(IdA),
   DeleteRequest("grpc", IdA)}

\* SpecSaves: each worker saves its own document once
OwnFile(w) == CASE w = "w1" -> FileA [] w = "w2" -> FileB [] OTHER -> FileC

Handle(w) ==
  \/ SaveInsertBegin(w)
  \/ SaveInsertEnd(w)
  \/ DeleteRemoveBegin(w)
  \/ DeleteRemoveEnd(w)
  \/ Lookup(w)
  \/ Deliver(w)

SaveToDisk(t) ==
  \/ SaveClone(t)
  \/ SaveEncode(t)
  \/ SaveOpen(t)
  \/ SaveWrite(t)

\* one run of the process, from its start to main's return, with one request
\* at a time
Next ==
  \/ StartServer
  \/ GrpcServe
  \/ ServerReady
  \/ MainReady
  \/ ProxyServe
  \/ MainProxyStopped
  \/ CtrlC
  \/ ServerShutdown
  \/ MainExit
  \/ RuntimeDrop
  \/ PeriodicTick
  \/ \E t \in Savers : SaveToDisk(t)
  \/ \E r \in Requests : Begin("w1", r)
  \/ Handle("w1")

Spec == Init /\ [][Next]_vars

\* the store across kills and restarts: requests, periodic saves, and the
\* process killed and started again at any moment
NextCrash ==
  \/ StartServer
  \/ GrpcServe
  \/ ServerReady
  \/ Restart
  \/ PeriodicTick
  \/ SaveToDisk("periodic")
  \/ \E r \in CrashRequests : Begin("w1", r)
  \/ SaveInsertBegin("w1")
  \/ SaveInsertEnd("w1")
  \/ DeleteRemoveBegin("w1")
  \/ DeleteRemoveEnd("w1")
  \/ Deliver("w1")

SpecCrash == FirstStart /\ [][NextCrash]_vars

\* the serving store and every request, one at a time
NextApi ==
  \/ \E r \in ApiRequests : Begin("w1", r)
  \/ Handle("w1")

SpecApi == Serving /\ [][NextApi]_vars

\* two request handlers and the periodic save, concurrently
NextConc ==
  \/ \E w \in {"w1", "w2"} :
       \/ \E r \in ConcRequests : Begin(w, r)
       \/ Handle(w)
  \/ PeriodicTick
  \/ SaveToDisk("periodic")

SpecConc == Serving /\ [][NextConc]_vars

\* one Save per worker, on distinct ids, and the periodic save, concurrently
NextSaves ==
  \/ \E w \in Workers :
       \/ Begin(w, SaveRequest(OwnFile(w)))
       \/ SaveInsertBegin(w)
       \/ SaveInsertEnd(w)
  \/ PeriodicTick
  \/ SaveToDisk("periodic")

SpecSaves == Serving /\ [][NextSaves]_vars

(***************************************************************************)
(* Properties of the request handlers, checked under SpecApi.              *)
(***************************************************************************)
\* the document of a Save request carries the empty string as its id
EmptyIdSave(r) ==
  /\ r.op = "save"
  /\ IsSome(Unwrap(r.file).file_id)
  /\ Unwrap(Unwrap(r.file).file_id).id = <<>>

\* C1: a Save whose document id is the empty string (a REST save whose JSON
\* has no file_id.id included) is answered with value FALSE, and the map never
\* has an entry keyed by the empty string.  The code does not keep this:
\* save_class_diagram tests only that file_id is present (server.rs:192), and
\* json_to_proto_file always makes it present (proxy.rs:180-186).
C1_EmptyIdRejected ==
  /\ <<>> \notin DOMAIN files
  /\ \A w \in Workers :
       pc[w] = "responded" /\ EmptyIdSave(req[w])
         => ~Unwrap(req[w].result).value

\* C2: the map holds, for every id saved and not since deleted, exactly the
\* document of the latest Save of that id, and a Get of the id returns that
\* document; nothing of the document the Save replaced remains.
C2_Overwrite ==
  /\ DOMAIN shadow = DOMAIN files
  /\ \A id \in DOMAIN shadow : files[id] = shadow[id]
  /\ \A w \in Workers :
       pc[w] = "responded" /\ req[w].op = "get"
                           /\ req[w].file_id.id \in DOMAIN shadow
         => /\ Unwrap(req[w].result).status = "Ok"
            /\ Unwrap(req[w].result).file = Some(shadow[req[w].file_id.id])

\* a Get has returned the second of two different documents saved under one id
C2_Witness ==
  /\ pc["w1"] = "responded"
  /\ req["w1"].op = "get"
  /\ IsSome(replaced)
  /\ Unwrap(replaced).id = req["w1"].file_id.id
  /\ Unwrap(replaced).old # shadow[Unwrap(replaced).id]
  /\ Unwrap(req["w1"].result).file = Some(shadow[Unwrap(replaced).id])

\* C3: for every id, Exists answers TRUE exactly when Get answers with a
\* document and FALSE exactly when Get fails with NotFound; Exists itself never
\* fails; and the step in which either handler answers leaves the map as it was.
C3_LookupsAgree ==
  /\ [](\A id \in Ids :
          LET g == get_class_diagram(files, FileId(id))
              e == is_existing_class_diagram(files, FileId(id))
          IN /\ e.status = "Ok"
             /\ g.status \in {"Ok", "NotFound"}
             /\ e.value <=> g.status = "Ok"
             /\ g.status = "Ok" => g.file = Some(files[id]))
  /\ [](\A w \in Workers :
          pc[w] = "responded" /\ req[w].op = "exists"
            => /\ Unwrap(req[w].result).status = "Ok"
               /\ Unwrap(req[w].result).value
                    <=> get_class_diagram(files, req[w].file_id).status = "Ok")
  /\ [][\A w \in Workers :
          pc[w] = "locked" /\ req[w].op \in {"get", "exists"}
                           /\ pc'[w] = "responded"
            => files' = files]_vars

\* Exists has answered TRUE for an id the map holds
C3_Witness ==
  /\ pc["w1"] = "responded"
  /\ req["w1"].op = "exists"
  /\ Unwrap(req["w1"].result).value
  /\ req["w1"].file_id.id \in DOMAIN files

Loaded(fs) == [ok |-> TRUE, files |-> fs, err |-> ""]

\* C5: in every state reached by Saves and Deletes, the buffer save_to_disk
\* builds from the current map, in whatever order the map is iterated, is
\* loaded by load_from_disk into an empty store as exactly the current map; and
\* the buffer a running save_to_disk has built loads as the map it cloned.
C5_SnapshotComplete ==
  /\ \A order \in IterOrders(files) :
       LoadSnapshot(SnapshotBuffer(files, order), EmptyMap) = Loaded(files)
  /\ pc["periodic"] \in {"encoded", "opened"}
       => LoadSnapshot(local["periodic"].buffer, EmptyMap)
            = Loaded(local["periodic"].files)

\* save_to_disk has encoded a map of two documents, after a Save replaced one
\* of them
C5_Witness ==
  /\ pc["periodic"] = "encoded"
  /\ local["periodic"].files = files
  /\ Cardinality(DOMAIN files) = 2
  /\ IsSome(replaced)
  /\ Len(local["periodic"].buffer) > 4

\* C6: while the snapshot file holds in full the checkpoint of a state S,
\* load_from_disk into an empty store gives S; and a process started on that
\* file, when its load succeeds, holds exactly S before it serves a request:
\* Get of every id of S returns the document of S, and every other id (one
\* saved after the checkpoint included) is NotFound.
C6_CrashRecovery ==
  /\ [](IsSome(image)
          => load_from_disk(disk, EmptyMap, TRUE) = Loaded(Unwrap(image)))
  /\ [][pc["server"] = "start" /\ pc'["server"] = "sleep" /\ IsSome(image)
          => /\ files' = Unwrap(image)
             /\ \A id \in {IdA, IdB, IdC} :
                  get_class_diagram(files', FileId(id))
                    = IF id \in DOMAIN Unwrap(image)
                      THEN Response("Ok", TRUE, "", Some(Unwrap(image)[id]))
                      ELSE Response("NotFound", FALSE, "File not found", None)]_vars

\* a restarted process has loaded a checkpoint with a document in it
C6_Witness ==
  /\ pc["server"] = "sleep"
  /\ booted.saw = "data"
  /\ booted.ok
  /\ IsSome(image)
  /\ files = Unwrap(image)
  /\ IdA \in DOMAIN files

(***************************************************************************)
(* Properties of concurrent calls, checked under SpecSaves and SpecConc.   *)
(***************************************************************************)
\* the workers whose Save has been applied and has returned
Applied == {w \in Workers : pc[w] = "responded"}

\* the map of the documents of a set of workers
MapOf(ws) ==
  [id \in {Unwrap(OwnFile(w).file_id).id : w \in ws} |->
     OwnFile(CHOOSE w \in ws : Unwrap(OwnFile(w).file_id).id = id)]

\* C7: with one Save per worker on distinct ids and an initially empty store,
\* the map save_to_disk clones is never torn and is exactly the documents of
\* the Saves already applied, each in full: all N of them when every Save has
\* returned.
C7_ConcurrentSaves ==
  /\ [](files = MapOf(Applied))
  /\ [](~local["periodic"].torn)
  /\ [][pc["periodic"] = "save_start" /\ pc'["periodic"] = "cloned"
          => /\ local'["periodic"].files = MapOf(Applied)
             /\ Applied = Workers
                  => Cardinality(DOMAIN local'["periodic"].files)
                       = Cardinality(Workers)]_vars

\* the snapshot was taken after the three Saves returned
C7_Witness ==
  /\ Applied = Workers
  /\ pc["periodic"] = "cloned"
  /\ Cardinality(DOMAIN local["periodic"].files) = 3
  /\ local["periodic"].files = MapOf(Workers)

\* the tasks that are between taking the guard and dropping it
InCritical == {w \in Workers : pc[w] \in {"locked", "inserting", "removing"}}

\* what the call of a request returns on the map fs
Sequential(fs, r) ==
  CASE r.op = "save" -> save_class_diagram(fs, Unwrap(r.file)).result
    [] r.op = "get" -> get_class_diagram(fs, r.file_id)
    [] r.op = "exists" -> is_existing_class_diagram(fs, r.file_id)
    [] r.op = "delete" -> delete_class_diagram(fs, r.file_id).result

\* C8: every access to the map is made by the one task that holds the mutex,
\* so no call sees another's insert or remove half done; each call answers,
\* at the step it drops the guard, what it returns on the map the earlier calls
\* left, and leaves the map that call leaves; and a Save that holds the guard
\* drops it only in the step that completes its insert.
C8_Atomic ==
  /\ [](/\ Cardinality(InCritical) <= 1
        /\ \A w \in InCritical : lock = w
        /\ mutating \subseteq InCritical
        /\ \A w \in Workers : ~req[w].torn
        /\ ~local["periodic"].torn
        /\ files = shadow)
  /\ [][\A w \in Workers :
          pc[w] \in {"locked", "inserting", "removing"} /\ pc'[w] = "responded"
            => /\ Unwrap(req'[w].result) = Sequential(shadow, req[w])
               /\ files' = shadow'
               /\ req[w].op \in {"get", "exists"} => shadow' = shadow]_vars
  /\ [][\A w \in Workers :
          lock = w /\ lock' # w /\ req[w].op = "save"
            => /\ pc[w] = "inserting"
               /\ files' = insert(files, Unwrap(Unwrap(req[w].file).file_id).id,
                                  Unwrap(req[w].file))]_vars

\* a Save is inside its insert while another call has answered and a
\* save_to_disk is under way
C8_Witness ==
  /\ pc["w1"] = "inserting"
  /\ pc["w2"] = "responded"
  /\ req["w2"].op = "get"
  /\ pc["periodic"] = "encoded"

(***************************************************************************)
(* Properties of start-up, checked under Spec.                             *)
(***************************************************************************)
LoadFailed == booted.saw # "pending" /\ ~booted.ok

\* C9: the gRPC server, the REST proxy and the periodic task exist, and a
\* request is handled, only after load_from_disk has returned Ok; when it
\* returned an error none of them is ever started, no request is handled, the
\* error is what the server task reports, and main returns it.
C9_StartupOrder ==
  /\ (\/ pc["grpc"] # "unspawned"
      \/ pc["proxy"] # "unspawned"
      \/ pc["periodic"] # "unspawned"
      \/ \E w \in Workers : pc[w] # "idle" \/ req[w] # NoReq)
       => booted.saw # "pending" /\ booted.ok
  /\ LoadFailed
       => /\ pc["grpc"] = "unspawned"
          /\ pc["proxy"] = "unspawned"
          /\ pc["periodic"] = "unspawned"
          /\ \A w \in Workers : pc[w] = "idle" /\ req[w] = NoReq
          /\ pc["server"] = "done"
          /\ ready = "err"
          /\ \/ pc["main"] = "wait_ready" /\ exit = "running"
             \/ pc["main"] \in {"exited", "gone"} /\ exit = "err"

\* a snapshot that does not decode has ended the process with an error
C9_Witness ==
  /\ booted.saw = "data"
  /\ booted.err = "failed to fill whole buffer"
  /\ exit = "err"

\* C10: a snapshot file of length zero, read without an I/O error, is loaded
\* as an empty store and start-up goes on.  The code does not keep this:
\* read_exact of the four bytes of the count fails on the empty buffer
\* (server.rs:121-123).
C10_ZeroLengthLoads ==
  booted.saw = "empty" /\ booted.err # "io error"
    => booted.ok /\ pc["server"] # "done" /\ exit # "err"

\* C11: when the persistence directory or the snapshot file does not exist,
\* load_from_disk returns Ok and leaves the store empty, start_server goes on
\* to spawn the periodic task and the gRPC server, and no error is reported.
C11_MissingLoads ==
  /\ [][pc["server"] = "start" /\ pc'["server"] # "start"
                               /\ Saw(disk) \in {"nodir", "nofile"}
          => /\ booted'.ok
             /\ files' = EmptyMap
             /\ pc'["server"] = "sleep"
             /\ pc'["periodic"] = "tick"
             /\ pc'["grpc"] = "starting"]_vars
  /\ [](booted.saw \in {"nodir", "nofile"}
          => booted.ok /\ ready # "err" /\ exit # "err")

\* started on a directory without a snapshot file, the process has answered a
\* request
C11_Witness ==
  /\ booted.saw = "nofile"
  /\ booted.ok
  /\ pc["w1"] = "responded"

(***************************************************************************)
(* load_from_disk on damaged snapshot files, checked under SpecLoad: the   *)
(* process starts on a file that is a snapshot of MapAB damaged in one of  *)
(* the ways of LoadBlobs.                                                  *)
(***************************************************************************)
MapAB == [x \in {IdA, IdB} |-> IF x = IdA THEN FileA ELSE FileB]

\* a snapshot file written field by field: the lengths are what they are
\* said to be, not what they are
RawEntry(key_len, key, payload_len, payload) ==
  u32_to_be_bytes(key_len) \o key \o u32_to_be_bytes(payload_len) \o payload
RawBlob(count, entries) == u32_to_be_bytes(count) \o Concat(entries)

EntryA == RawEntry(1, IdA, Len(EncodeFile(FileA)), EncodeFile(FileA))
EntryB == RawEntry(1, IdB, Len(EncodeFile(FileB)), EncodeFile(FileB))

GoodBlobs == {SnapshotBuffer(MapAB, o) : o \in IterOrders(MapAB)}

\* every strict prefix of a snapshot: some count or length cannot be read in
\* full, or claims more bytes than are left
TruncatedBlobs ==
  {Take(b, n) : n \in 0..(Len(RawBlob(2, <<EntryA, EntryB>>)) - 1),
                b \in {RawBlob(2, <<EntryA, EntryB>>)}}

\* entry_count is larger than the number of entries in the file
CountBlobs ==
  {RawBlob(1, <<>>), RawBlob(3, <<EntryA, EntryB>>), RawBlob(2, <<EntryB>>)}

\* a key_len or a payload_len claims more bytes than are left
LengthBlobs ==
  {RawBlob(2, <<EntryA, RawEntry(2, IdB, Len(EncodeFile(FileB)), EncodeFile(FileB))>>),
   RawBlob(2, <<EntryA, RawEntry(1, IdB, Len(EncodeFile(FileB)) + 1, EncodeFile(FileB))>>),
   RawBlob(1, <<RawEntry(200, IdA, Len(EncodeFile(FileA)), EncodeFile(FileA))>>),
   RawBlob(1, <<RawEntry(1, IdA, 70000, EncodeFile(FileA))>>)}

\* payloads that are not a File: a length-delimited field without its length,
\* one longer than the payload, a field of wire type 7, a string that is not
\* UTF-8, an int32 field sent as bytes
BadPayloads == {<<26>>, <<26, 5, 10>>, <<15, 0>>, <<34, 1, 200>>, <<10, 1, 97>>}
PayloadBlobs ==
  {RawBlob(2, <<EntryA, RawEntry(1, IdB, Len(p), p)>>) : p \in BadPayloads}

LoadBlobs ==
  GoodBlobs \cup TruncatedBlobs \cup CountBlobs \cup LengthBlobs \cup PayloadBlobs

\* the start-up of the process on each of the files
NextLoad ==
  \/ StartServer
  \/ GrpcServe
  \/ ServerReady
  \/ MainReady

InitLoad ==
  /\ Started
  /\ image = None
  /\ \E b \in LoadBlobs : disk = Disk(TRUE, Some(b))

SpecLoad == InitLoad /\ [][NextLoad]_vars

\* C12: load_from_disk, when the file was read, returns an error for every
\* file in which entry_count, a key_len or a payload_len cannot be read in
\* full or claims more bytes than are left (an entry_count above the number of
\* entries included), and for every file with a payload that is not a File;
\* the error ends start-up.  An undamaged file loads as the map it holds.
C12_DecodeFails ==
  booted.saw # "pending" /\ booted.err # "io error"
    => LET b == Unwrap(disk.snapshot) IN
       /\ b \in TruncatedBlobs \cup CountBlobs \cup LengthBlobs
            => ~booted.ok /\ booted.err = "failed to fill whole buffer"
       /\ b \in PayloadBlobs => ~booted.ok
       /\ b \in GoodBlobs => booted.ok /\ files = MapAB
       /\ ~booted.ok => ready = "err" /\ pc["server"] = "done"

\* a file with entry_count 3 and two entries has been refused
C12_Witness ==
  /\ disk.snapshot = Some(RawBlob(3, <<EntryA, EntryB>>))
  /\ booted.saw = "data"
  /\ ~booted.ok
  /\ booted.err = "failed to fill whole buffer"
  /\ exit = "err"

(***************************************************************************)
(* The periodic task, checked under SpecPeriodic: the serving process, one *)
(* request handler and the timer loop.  The timer fires every interval     *)
(* and the runtime schedules the task: weak fairness of PeriodicTick and   *)
(* of the steps of save_to_disk.                                           *)
(***************************************************************************)
PeriodicRequests == {SaveRequest(FileB), DeleteRequest("grpc", IdB)}

NextPeriodic ==
  \/ PeriodicTick
  \/ SaveToDisk("periodic")
  \/ \E r \in PeriodicRequests : Begin("w1", r)
  \/ SaveInsertBegin("w1")
  \/ SaveInsertEnd("w1")
  \/ DeleteRemoveBegin("w1")
  \/ DeleteRemoveEnd("w1")
  \/ Deliver("w1")

SpecPeriodic ==
  /\ Serving
  /\ [][NextPeriodic]_vars
  /\ WF_vars(PeriodicTick)
  /\ WF_vars(SaveToDisk("periodic"))

\* the periodic task is inside save_to_disk
PeriodicSaving == pc["periodic"] \in {"save_start", "cloned", "encoded", "opened"}

\* C13: the periodic task never leaves its loop: whatever save_to_disk
\* returns, the task is back at interval.tick(), and after a save_to_disk that
\* returned an error the timer fires again and save_to_disk is called again.
C13_PeriodicResilient ==
  /\ [](pc["periodic"] = "tick" \/ PeriodicSaving)
  /\ [][PeriodicSaving /\ ~PeriodicSaving'
          => pc'["periodic"] = "tick" /\ local'["periodic"].last \in {"ok", "err"}]_vars
  /\ (pc["periodic"] = "tick" /\ local["periodic"].last = "err")
       ~> (pc["periodic"] = "save_start")

\* after a save_to_disk that failed, the timer has fired and the next
\* save_to_disk is about to run
C13_Witness ==
  /\ pc["periodic"] = "save_start"
  /\ local["periodic"].last = "err"

(***************************************************************************)
(* Shutdown, checked under Spec.                                           *)
(***************************************************************************)
\* the server task has called save_to_disk (main.rs:34)
ShutdownCheckpointStarted ==
  \/ pc["server"] \in {"save_start", "cloned", "encoded", "opened"}
  \/ local["server"].last # "none"

\* C14: the shutdown checkpoint is started only when a termination request
\* (Ctrl+C) has been received and the shutdown signal sent, also when the proxy
\* task has ended first.  The code does not keep this: when the proxy task
\* ends, main returns and drops shutdown_tx unsent (main.rs:86-88, 113), which
\* completes `let _ = shutdown_rx.await` in the server task (main.rs:30), and
\* the task, if it is polled before the runtime is shut down, calls
\* save_to_disk.
C14_ShutdownOnlyOnRequest ==
  ShutdownCheckpointStarted => shutdown_tx = "sent"

\* C15: after a termination request main returns when the server task has
\* ended or when the 60 s have passed, whichever is first, and the process then
\* exits whatever the state of the shutdown checkpoint.  The code does not
\* keep the last part: main returns, but the runtime it returns into waits for
\* a write of the checkpoint that is under way in the blocking pool, so a
\* write that never returns keeps the process from exiting.
C15_ShutdownTerminates ==
  /\ pc["main"] = "shutdown_wait" => ENABLED MainExit
  /\ pc["main"] = "exited" /\ shutdown_tx = "sent" => ENABLED RuntimeDrop

(***************************************************************************)
(* Save and the snapshot file.                                             *)
(***************************************************************************)
\* a step of a save_to_disk call between its clone of the map and its return
CheckpointStep ==
  \E t \in Savers : pc[t] \in {"cloned", "encoded", "opened"} /\ pc'[t] # pc[t]

\* C16: Save has no persistence side effect.  From the return of a successful
\* Save until a Delete of the id, every Get answers with the saved document,
\* every Exists answers TRUE and a Delete finds the entry; no step of a Save,
\* Get, Exists or Delete handler changes the data directory or the snapshot
\* file; and the directory and the file change only in steps of save_to_disk,
\* which only the periodic task and the shutdown of the server task call.
C16_NoPersistenceEffect ==
  /\ [](lock = "free" =>
          \A id \in DOMAIN shadow :
            /\ get_class_diagram(files, FileId(id)).file = Some(shadow[id])
            /\ is_existing_class_diagram(files, FileId(id)).value
            /\ delete_class_diagram(files, FileId(id)).result.value)
  /\ [][\A w \in Workers : pc'[w] # pc[w] \/ req'[w] # req[w] => disk' = disk]_vars
  /\ [][disk' # disk => CheckpointStep]_vars
  /\ [][files' # files => disk' = disk]_vars

\* a Save has returned success, its document is in the map, and the snapshot
\* file still holds, in full, an earlier checkpoint without it
C16_Witness ==
  /\ pc["w1"] = "responded"
  /\ req["w1"].op = "save"
  /\ Unwrap(req["w1"].result).value
  /\ Unwrap(Unwrap(req["w1"].file).file_id).id \in DOMAIN files
  /\ IsSome(disk.snapshot)
  /\ IsSome(image)
  /\ Unwrap(image) # files
  /\ Unwrap(Unwrap(req["w1"].file).file_id).id \notin DOMAIN Unwrap(image)

(***************************************************************************)
(* The JSON translator behind the REST routes: POST /api_p1 stores         *)
(* json_to_proto_file(body), GET /api_p1/:file_id answers with             *)
(* proto_file_to_json of the stored File.                                  *)
(***************************************************************************)
S_BOGUS == <<66, 79, 71, 85, 83>>
S_public == <<112, 117, 98, 108, 105, 99>>
S_composition == <<99, 111, 109, 112, 111, 115, 105, 116, 105, 111, 110>>

VisibilityNames == {S_PUBLIC, S_PRIVATE, S_PROTECTED, S_NON_MODIFIER}
RelationNames ==
  {S_NONE, S_INHERITANCE, S_IMPLEMENTATION, S_ASSOCIATION, S_AGGREGATION,
   S_COMPOSITION}

\* the values of the visibility and of the relation key in a body: absent,
\* every name of the vocabulary, a string outside it, a name in lower case
EnumInputs ==
  {<<None, None>>,
   <<None, Some(S_BOGUS)>>,
   <<Some(S_BOGUS), Some(S_COMPOSITION)>>,
   <<Some(S_public), Some(S_composition)>>,
   <<Some(S_PUBLIC), Some(S_NONE)>>,
   <<Some(S_PRIVATE), Some(S_INHERITANCE)>>,
   <<Some(S_PROTECTED), Some(S_IMPLEMENTATION)>>,
   <<Some(S_NON_MODIFIER), Some(S_ASSOCIATION)>>,
   <<Some(S_PUBLIC), Some(S_AGGREGATION)>>}

\* a JSON object with the key when the value is there
WithKey(obj, key, o) ==
  [k \in DOMAIN obj \cup (IF IsSome(o) THEN {key} ELSE {}) |->
     IF k = key /\ IsSome(o) THEN JStr(Unwrap(o)) ELSE obj[k]]

\* a body with one class: a field, an operation with a parameter, an edge
EnumBody(v, r) ==
  JObj([file_id |-> JObj([id |-> JStr(IdA)]),
        name |-> JStr(Name1),
        classes |->
          JArr(<<JObj([id |-> JStr(<<99, 49>>),
                       attributes |->
                         JArr(<<JObj(WithKey([name |-> JStr(<<120>>)],
                                             "visibility", v))>>),
                       methods |->
                         JArr(<<JObj(WithKey(
                                  [name |-> JStr(<<109>>),
                                   parameters |->
                                     JArr(<<JObj(WithKey([name |-> JStr(<<112>>)],
                                                         "visibility", v))>>)],
                                  "visibility", v))>>),
                       relations |->
                         JObj([relation_infos |->
                                 JArr(<<JObj(WithKey(
                                          [target_class_id |-> JStr(<<99, 50>>)],
                                          "relation", r))>>)])])>>)])

EnumBodies == {EnumBody(p[1], p[2]) : p \in EnumInputs}

\* the array under a key, empty when there is none
Arr(json, key) == unwrap_or(and_then(get(json, key), as_array), <<>>)

\* the string under a key when it is of the vocabulary, the default otherwise
NameOr(json, key, names, default) ==
  LET o == and_then(get(json, key), as_str)
  IN IF IsSome(o) /\ Unwrap(o) \in names THEN Unwrap(o) ELSE default

\* every field, operation, parameter and edge of the output carries the name
\* the input asks for
EnumsReadBack(in, out) ==
  /\ Len(Arr(out, "classes")) = Len(Arr(in, "classes"))
  /\ \A c \in 1..Len(Arr(in, "classes")) :
       LET ic == Arr(in, "classes")[c]
           oc == Arr(out, "classes")[c]
           irel == Arr(unwrap_or(get(ic, "relations"), JNull), "relation_infos")
           orel == Arr(unwrap_or(get(oc, "relations"), JNull), "relation_infos")
       IN /\ Len(Arr(oc, "attributes")) = Len(Arr(ic, "attributes"))
          /\ Len(Arr(oc, "methods")) = Len(Arr(ic, "methods"))
          /\ Len(orel) = Len(irel)
          /\ \A a \in 1..Len(Arr(ic, "attributes")) :
               get(Arr(oc, "attributes")[a], "visibility")
                 = Some(JStr(NameOr(Arr(ic, "attributes")[a], "visibility",
                                    VisibilityNames, S_NON_MODIFIER)))
          /\ \A m \in 1..Len(Arr(ic, "methods")) :
               LET im == Arr(ic, "methods")[m]
                   om == Arr(oc, "methods")[m]
               IN /\ get(om, "visibility")
                       = Some(JStr(NameOr(im, "visibility", VisibilityNames,
                                          S_NON_MODIFIER)))
                  /\ Len(Arr(om, "parameters")) = Len(Arr(im, "parameters"))
                  /\ \A q \in 1..Len(Arr(im, "parameters")) :
                       get(Arr(om, "parameters")[q], "visibility")
                         = Some(JStr(NameOr(Arr(im, "parameters")[q], "visibility",
                                            VisibilityNames, S_NON_MODIFIER)))
          /\ \A e \in 1..Len(irel) :
               get(orel[e], "relation")
                 = Some(JStr(NameOr(irel[e], "relation", RelationNames, S_NONE)))

\* a document whose class has an edge with no multiplicity, no role name, and
\* an operation with no is_abstract and no is_static
FileEdge ==
  [DefaultFile EXCEPT
     !.file_id = Some(FileId(IdA)),
     !.classes =
       <<[DefaultClass EXCEPT
            !.id = <<99, 49>>,
            !.methods = <<[DefaultMethod EXCEPT !.name = <<109>>,
                                                !.visibility = Visibility_Public]>>,
            !.relations =
              Some([relation_infos |->
                      <<[DefaultRelationInfo EXCEPT
                           !.target_class_id = <<99, 50>>,
                           !.relation = Relation_Association]>>])]>>]

\* the same with both multiplicities: 1..* (no upper) and 0..2, and role names
FileEdgeFull ==
  [FileEdge EXCEPT
     !.classes[1].relations =
       Some([relation_infos |->
               <<[target_class_id |-> <<99, 50>>,
                  relation |-> Relation_Composition,
                  multiplicity_p |-> Some([lower |-> 1, upper |-> None]),
                  multiplicity_c |-> Some([lower |-> 0, upper |-> Some(2)]),
                  role_name_p |-> Some(<<112>>),
                  role_name_c |-> Some(<<>>)]>>])]

\* the documents saved over gRPC
JsonFiles == {FileA, FileA2, FileEdge, FileEdgeFull}

\* bodies with elements that are not JSON objects: in classes; in the
\* attributes, methods, parameters and relation_infos of a class
MalformedBodies ==
  {JObj([file_id |-> JObj([id |-> JStr(IdA)]),
         classes |-> JArr(<<JStr(<<120>>), JObj([id |-> JStr(<<99, 49>>)])>>)]),
   JObj([file_id |-> JObj([id |-> JStr(IdA)]),
         classes |->
           JArr(<<JObj([id |-> JStr(<<99, 49>>),
                        attributes |->
                          JArr(<<JNum(5), JObj([name |-> JStr(<<120>>)])>>),
                        methods |->
                          JArr(<<JObj([name |-> JStr(<<109>>),
                                       parameters |->
                                         JArr(<<JObj([name |-> JStr(<<112>>)]),
                                                JBool(TRUE)>>)]),
                                 JNull>>),
                        relations |->
                          JObj([relation_infos |->
                                  JArr(<<JArr(<<>>),
                                         JObj([relation |-> JStr(S_COMPOSITION)])>>)])])>>)])}

\* a body with the timestamps and the bounds of one multiplicity
IntegerBody(created_at, last_modified, lower, upper) ==
  JObj([file_id |-> JObj([id |-> JStr(IdA)]),
        created_at |-> created_at,
        last_modified |-> last_modified,
        classes |->
          JArr(<<JObj([id |-> JStr(<<99, 49>>),
                       relations |->
                         JObj([relation_infos |->
                                 JArr(<<JObj([multiplicity_p |->
                                                JObj([lower |-> lower,
                                                      upper |-> upper])])>>)])])>>)])

\* integers of 32 bits; 2^32 + 5, -(2^32) - 1, 2^32 + 1 and 2^63 + 2
IntegerBodies ==
  {IntegerBody(JNum(300), JNum(-1), JNum(1), JNum(2)),
   IntegerBody(JInt(<<0, 1, 0, 5>>), JInt(<<Limb - 1, Limb - 2, Limb - 1, Limb - 1>>),
               JInt(<<0, 1, 0, 1>>), JBigU64(<<32768, 0, 0, 2>>))}

JsonRequests ==
  {RestSaveRequest(j) : j \in EnumBodies \cup MalformedBodies \cup IntegerBodies}
    \cup {SaveRequest(f) : f \in JsonFiles}
    \cup {RestGetRequest(IdA), DeleteRequest("rest", IdA)}

NextJson ==
  \/ \E r \in JsonRequests : Begin("w1", r)
  \/ Handle("w1")

SpecJson == Serving /\ [][NextJson]_vars

\* C17: enum defaulting in the JSON translator.  For every body accepted by
\* POST /api_p1, the File it is translated to reads back, and the GET of the
\* stored File answers, with: for each field, operation and parameter, the
\* visibility string of the body when it is one of PUBLIC, PRIVATE, PROTECTED,
\* NON_MODIFIER (compared case-sensitively) and NON_MODIFIER when it is any
\* other string or the key is missing; for each edge, the relation string of
\* the body when it is of the vocabulary and NONE otherwise.
C17_EnumDefaulting ==
  \A w \in Workers :
    /\ IsSome(req[w].body)
         => EnumsReadBack(Unwrap(req[w].body),
                          proto_file_to_json(Unwrap(req[w].file)))
    /\ \A j \in EnumBodies :
         /\ pc[w] = "responded" /\ req[w].op = "get" /\ req[w].via = "rest"
         /\ Unwrap(req[w].rest).ok
         /\ files[req[w].file_id.id] = json_to_proto_file(j).v
         => EnumsReadBack(j, Unwrap(req[w].rest).v)

\* a body with "visibility": "BOGUS" and "relation": "COMPOSITION" was stored,
\* and GET has answered NON_MODIFIER for its field and COMPOSITION for its edge
C17_Witness ==
  /\ pc["w1"] = "responded"
  /\ req["w1"].op = "get"
  /\ req["w1"].via = "rest"
  /\ IdA \in DOMAIN files
  /\ files[IdA] = json_to_proto_file(EnumBody(Some(S_BOGUS), Some(S_COMPOSITION))).v
  /\ Unwrap(req["w1"].rest).ok
  /\ LET class == Arr(Unwrap(req["w1"].rest).v, "classes")[1]
     IN /\ get(Arr(class, "attributes")[1], "visibility")
             = Some(JStr(S_NON_MODIFIER))
        /\ get(Arr(Unwrap(get(class, "relations")), "relation_infos")[1],
               "relation") = Some(JStr(S_COMPOSITION))

\* the documented default: a field or parameter without visibility reads as
\* NON_MODIFIER
DefaultedVariable(v) ==
  IF IsSome(v.visibility) THEN v
  ELSE [v EXCEPT !.visibility = Some(Visibility_NonModifier)]
DefaultedMethod(m) ==
  [m EXCEPT !.parameters =
     [i \in 1..Len(m.parameters) |-> DefaultedVariable(m.parameters[i])]]
DefaultedClass(c) ==
  [c EXCEPT !.attributes =
              [i \in 1..Len(c.attributes) |-> DefaultedVariable(c.attributes[i])],
            !.methods = [i \in 1..Len(c.methods) |-> DefaultedMethod(c.methods[i])]]
Defaulted(d) ==
  [d EXCEPT !.classes = [i \in 1..Len(d.classes) |-> DefaultedClass(d.classes[i])]]

\* C18: JSON round trip.  The JSON that GET /api_p1/:file_id answers for a stored
\* document d translates back, by json_to_proto_file, to d with the documented
\* default applied (an absent visibility of a field reads as NON_MODIFIER); an
\* optional field absent in d is absent in the result.
C18_JsonRoundTrip ==
  \A w \in Workers :
    /\ pc[w] = "responded" /\ req[w].op = "get" /\ req[w].via = "rest"
    /\ Unwrap(req[w].rest).ok
    => json_to_proto_file(Unwrap(req[w].rest).v).v
         = Defaulted(files[req[w].file_id.id])

\* a JSON value that is an object
IsObject(v) == v.t = "obj"

\* the object with the array under the key pruned to its elements that are
\* objects, in their order
Pruned(obj, key) ==
  IF key \in DOMAIN obj /\ obj[key].t = "arr"
  THEN [obj EXCEPT ![key] = JArr(SelectSeq(obj[key].a, IsObject))]
  ELSE obj

\* the same, each kept element rewritten by the function f
PrunedBy(obj, key, f) ==
  IF key \in DOMAIN obj /\ obj[key].t = "arr"
  THEN LET kept == SelectSeq(obj[key].a, IsObject)
       IN [obj EXCEPT ![key] = JArr([i \in 1..Len(kept) |-> f[kept[i]]])]
  ELSE obj

PrunedMethod(m) == JObj(Pruned(m.o, "parameters"))

PrunedRelations(r) ==
  IF r.t = "obj" THEN JObj(Pruned(r.o, "relation_infos")) ELSE r

PrunedClass(c) ==
  LET o1 == Pruned(c.o, "attributes")
      ms == IF "methods" \in DOMAIN o1 /\ o1["methods"].t = "arr"
            THEN SelectSeq(o1["methods"].a, IsObject) ELSE <<>>
      o2 == PrunedBy(o1, "methods", [m \in {ms[i] : i \in 1..Len(ms)} |-> PrunedMethod(m)])
  IN JObj(IF "relations" \in DOMAIN o2
          THEN [o2 EXCEPT !["relations"] = PrunedRelations(o2["relations"])]
          ELSE o2)

\* the body without its malformed elements
PrunedFile(json) ==
  LET cs == SelectSeq(Arr(json, "classes"), IsObject)
  IN JObj(PrunedBy(json.o, "classes",
                   [c \in {cs[i] : i \in 1..Len(cs)} |-> PrunedClass(c)]))

\* C19: partial success.  The File that POST /api_p1 makes of a body is the File
\* of the body without the elements of its classes, attributes, methods,
\* parameters and relation_infos arrays that are not JSON objects: they are
\* dropped, the others kept in order, and the conversion succeeds.
C19_MalformedDropped ==
  \A w \in Workers :
    IsSome(req[w].body)
      => /\ json_to_proto_file(Unwrap(req[w].body)).ok
         /\ Unwrap(req[w].file)
              = json_to_proto_file(PrunedFile(Unwrap(req[w].body))).v

(***************************************************************************)
(* The guard and the disk.                                                 *)
(***************************************************************************)
ExportRequests ==
  {SaveRequest(FileA), SaveRequest(FileB), GetRequest(IdA),
   DeleteRequest("grpc", IdA)}

\* requests, the periodic save and a call of export_files, concurrently
NextExport ==
  \/ \E r \in ExportRequests : Begin("w1", r)
  \/ Handle("w1")
  \/ PeriodicTick
  \/ SaveToDisk("periodic")
  \/ ExportLock
  \/ ExportMkdir
  \/ ExportWrite
  \/ ExportEnd

SpecExport == Serving /\ [][NextExport]_vars

\* the tasks that are at a step that creates a directory or writes a file
AtDiskStep ==
  {t \in Savers : pc[t] \in {"cloned", "encoded", "opened"}}
    \cup {t \in {"exporter"} : pc[t] \in {"export_locked", "export_writing"}}

\* C20: the guard of the map is never held across disk I/O.  No task that is
\* at a step that creates a directory or writes a file (in save_to_disk, in
\* export_files) holds the guard, and the task that takes a step that changes
\* the disk does not hold the guard in that step.
C20_LockNotHeldAcrossIO ==
  /\ [](\A t \in AtDiskStep : lock # t)
  /\ [][disk' # disk => \A t \in Tasks : pc'[t] # pc[t] => lock # t]_vars

(***************************************************************************)
(* The checkpoint runs against each other.                                 *)
(***************************************************************************)
\* the save_to_disk calls that are between their clone of the map and the
\* return of their file write
InCheckpoint == {t \in Savers : pc[t] \in {"cloned", "encoded", "opened"}}

\* C21: single writer on the persistence path.  At most one save_to_disk call
\* is between its clone of the map and the completion of its file write at any
\* moment, and no two calls are inside the write of snapshot.bin together.
C21_SingleWriter ==
  /\ Cardinality(InCheckpoint) <= 1
  /\ Cardinality({t \in Savers : pc[t] = "opened"}) <= 1

\* C22: crash consistency of the snapshot file.  In every state, a kill of the
\* process at any step of a checkpoint included, snapshot.bin is absent or is
\* loaded without error as a map that a save_to_disk call cloned; and a
\* process started on the file a killed process left fails to load it only on
\* an error of the read itself.
C22_CrashConsistent ==
  /\ IsSome(disk.snapshot)
       => /\ IsSome(image)
          /\ load_from_disk(disk, EmptyMap, TRUE) = Loaded(Unwrap(image))
  /\ booted.saw \in {"empty", "data"} /\ ~booted.ok => booted.err = "io error"

(***************************************************************************)
(* The keys of the map.                                                    *)
(***************************************************************************)
\* a document whose id is the empty string, as POST /api_p1 makes of a body
\* without file_id
FileEmptyId == [DefaultFile EXCEPT !.file_id = Some(FileId(<<>>)), !.name = Name1]

KeyRequests ==
  {SaveRequest(FileEmptyId), SaveRequest(FileB), GetRequest(<<>>),
   GetRequest(IdB), DeleteRequest("grpc", IdB)}

\* Saves, Gets and Deletes, periodic saves, and the process killed and started
\* again on the snapshot it wrote
NextKeys ==
  \/ StartServer
  \/ GrpcServe
  \/ ServerReady
  \/ Restart
  \/ PeriodicTick
  \/ SaveToDisk("periodic")
  \/ \E r \in KeyRequests : Begin("w1", r)
  \/ Handle("w1")

SpecKeys == FirstStart /\ [][NextKeys]_vars

\* C23: key/id agreement.  In every state of the map reached by loads of the
\* snapshots the process wrote, Saves and Deletes, every entry holds a document
\* whose file_id is present and whose file_id.id is the key of the entry, and
\* a Get that answers with a document answers with one whose id is the id asked
\* for.
C23_KeyIsId ==
  /\ \A k \in DOMAIN files :
       /\ IsSome(files[k].file_id)
       /\ Unwrap(files[k].file_id).id = k
       /\ get_class_diagram(files, FileId(k)).file = Some(files[k])
  /\ \A w \in Workers :
       /\ pc[w] = "responded" /\ req[w].op = "get"
       /\ IsSome(Unwrap(req[w].result).file)
       => Unwrap(Unwrap(req[w].result).file).file_id = Some(req[w].file_id)

\* a process started again has loaded a snapshot with the document of the empty
\* id and another one, and Get of the empty id has answered with it
C23_Witness ==
  /\ booted.saw = "data"
  /\ booted.ok
  /\ DOMAIN files = {<<>>, IdB}
  /\ pc["w1"] = "responded"
  /\ req["w1"].op = "get"
  /\ req["w1"].file_id = FileId(<<>>)
  /\ Unwrap(req["w1"].result).file = Some(FileEmptyId)

(***************************************************************************)
(* Checkpoints at shutdown.  The requests are Saves of two documents, so   *)
(* the map only grows: of two maps the process held, the one held first is *)
(* the one with fewer entries.                                             *)
(***************************************************************************)
ShutdownRequests == {SaveRequest(FileA), SaveRequest(FileB)}

NextShutdown ==
  \/ \E r \in ShutdownRequests : Begin("w1", r)
  \/ SaveInsertBegin("w1")
  \/ SaveInsertEnd("w1")
  \/ Deliver("w1")
  \/ PeriodicTick
  \/ \E t \in Savers : SaveToDisk(t)
  \/ CtrlC
  \/ ServerShutdown
  \/ MainExit
  \/ RuntimeDrop

SpecShutdown == Serving /\ [][NextShutdown]_vars

\* the map m was held no later than the map n
HeldBefore(m, n) == DOMAIN m \subseteq DOMAIN n

\* C24: the snapshot on disk never regresses.  When snapshot.bin holds in full
\* the checkpoint of a map S, no save_to_disk call opens (truncates) the file
\* to write a map it cloned before the process held S.
C24_NoRegress ==
  [][\A t \in Savers :
       pc[t] = "encoded" /\ pc'[t] = "opened" /\ IsSome(image)
         => HeldBefore(Unwrap(image), local[t].files)]_vars

\* the shutdown checkpoint has returned Ok and the process has exited
GracefulExit ==
  /\ pc["main"] = "gone"
  /\ exit = "ok"
  /\ shutdown_tx = "sent"
  /\ pc["server"] = "done"
  /\ local["server"].last = "ok"

\* C25: no acknowledged write is lost at graceful shutdown.  When the shutdown
\* checkpoint has completed and the process has exited, snapshot.bin holds in
\* full a map with every document whose Save returned success; and no Save is
\* accepted once the shutdown checkpoint has cloned the map.
C25_NoLostWrite ==
  /\ GracefulExit
       => /\ IsSome(image)
          /\ \A id \in DOMAIN shadow :
               id \in DOMAIN Unwrap(image) /\ Unwrap(image)[id] = shadow[id]
  /\ pc["server"] \in {"cloned", "encoded", "opened", "done"}
       => \A w \in Workers : ~(pc[w] = "locked" /\ req[w].op = "save")

\* the timestamps of a document in JSON and the bounds of the multiplicity of
\* its first edge
IntegersOf(json) ==
  LET class == Arr(json, "classes")[1]
      edge == Arr(unwrap_or(get(class, "relations"), JNull), "relation_infos")[1]
      mult == unwrap_or(get(edge, "multiplicity_p"), JNull)
  IN <<get(json, "created_at"), get(json, "last_modified"), get(mult, "lower"),
       get(mult, "upper")>>

\* C26: integer fidelity through the REST path.  For a body whose created_at
\* and last_modified are signed 64-bit integers and whose multiplicity bounds
\* are unsigned 64-bit integers, the File that POST /api_p1 stores reads back,
\* and GET /api_p1/:file_id answers, with the same four numbers.
C26_IntegerFidelity ==
  \A w \in Workers :
    /\ IsSome(req[w].body) /\ Unwrap(req[w].body) \in IntegerBodies
         => IntegersOf(proto_file_to_json(Unwrap(req[w].file)))
              = IntegersOf(Unwrap(req[w].body))
    /\ \A j \in IntegerBodies :
         /\ pc[w] = "responded" /\ req[w].op = "get" /\ req[w].via = "rest"
         /\ Unwrap(req[w].rest).ok
         /\ files[req[w].file_id.id] = json_to_proto_file(j).v
         => IntegersOf(Unwrap(req[w].rest).v) = IntegersOf(j)

====
